---- MODULE Spec2Model ----
(***************************************************************************)
(* The request path of beansdb (src/src/beansdb.c): the per-connection     *)
(* state machine drive_machine, the text-protocol parser and the command   *)
(* handlers, driven by clients that send byte streams over sockets.        *)
(*                                                                         *)
(* Unit of the byte streams.  A stream is a sequence of atoms.  An atom is *)
(* an indivisible run of bytes: a keyword or key ("get", "A"), or a single *)
(* byte (a digit, a body byte, SP, CR, LF).  Socket reads and writes cut   *)
(* streams between atoms, and buffer sizes and body lengths count atoms;   *)
(* every atom a body is made of is a single byte.  ByteLen gives the       *)
(* length in bytes of an atom, which the key-length checks read.           *)
(***************************************************************************)
EXTENDS Integers, Sequences, FiniteSets, TLC

VARIABLES
    conn,    \* conn[c]: the connection structure of connection c
    store,   \* the store behind hs_get, hs_set, ...
    alive,   \* FALSE once the server process has died
    script,  \* script[c]: the commands the client of c sends (never changes)
    stream,  \* stream[c]: the bytes of script[c]
    nread,   \* nread[c]: how many bytes of stream[c] the server has read
    drv,     \* drv[c]: "run" inside drive_machine, "wait" in the reactor,
             \*         "closed" after conn_close
    out,     \* out[c]: per command line handed to process_command, the
             \*         bytes the socket took since and the Store calls made
    \* the listener and the descriptor table of the process
    fds,      \* the open descriptors
    held,     \* those of them that other threads opened (files, connections)
    stub_fd,  \* the variable stub_fd
    pending,  \* the connections waiting in the listening socket's queue
    lpc,      \* where the listener is in the conn_listening case
    sfd,      \* the listener's variable sfd
    shed,     \* the connections accepted and closed at once so far
    \* the shutdown
    daemon_quit,  \* the flag daemon_quit
    stopme,       \* the setting stopme (option -S)
    mainpc,       \* where main is, from pthread_create (l.2190) on
    flushpc,      \* where the flush worker is in do_flush ("none": not created)
    after,        \* the hs_flush calls begun since daemon_quit was set
    by,           \* what set daemon_quit first
    \* the mmap helper (src/src/mfile.c)
    curr_mmap_size,  \* the counter curr_mmap_size, in megabytes
    mf,              \* mf[t]: where thread t is in open_mfile or close_mfile,
                     \*        and the megabytes of its file
    \* one handler called on its own
    unit,            \* the handler's input (in) and, once it was called
                     \* (done), what it did (res)
    \* the connection structures and their free list
    pool             \* the variables freeconns, freetotal and freecurr; per
                     \* structure s, whether its memory is allocated
                     \* (mem[s]), its read buffer (rb[s]) and the number of
                     \* clients it serves (clients[s])

connvars == <<conn, store, alive, script, stream, nread, drv, out>>

listenvars == <<fds, held, stub_fd, pending, lpc, sfd, shed>>

flushvars == <<daemon_quit, stopme, mainpc, flushpc, after, by>>

mmapvars == <<curr_mmap_size, mf>>

unitvars == <<unit>>

poolvars == <<pool>>

sidevars == <<listenvars, flushvars, mmapvars, unitvars, poolvars>>

vars == <<connvars, sidevars>>

(***************************************************************************)
(* Bounds of the model.                                                    *)
(***************************************************************************)
\* read_buffer_size handed to conn_new, in atoms (the server passes
\* DATA_BUFFER_SIZE; a small value makes the doubling of rbuf happen).
ReadBufferSize == 4

\* The widths in bits of int and of long.  The program has 32 and 64; the
\* model keeps int narrower than long at a scale whose numbers the
\* clients can send in a few digits.
IntBits == 5

LongBits == 7

\* The limit on open descriptors (RLIMIT_NOFILE), the length of the
\* listening socket's queue, and the cap of the count of shed connections.
MaxFds == 5

Backlog == 2

MaxShed == 2

\* The cap of the count of hs_flush calls begun after daemon_quit was set.
MaxAfter == 2

\* The threads that call open_mfile and close_mfile.
MThreads == 2

\* The connection structures the heap has room for, and the length
\* conn_init gives the free list (200 in the program).
MaxStructs == 3

FreeTotal == 1

\* The passes of the loops of process_get_command the model follows.
MaxTurns == 10

\* The operations on the stats record that the threads begin.
MaxCalls == 3

\* The words of the longest line given to tokenize_command on its own.
MaxWords == 15

\* One try_realloc call may fail in a handler call: one of the first
\* MaxFail calls the handler makes.
MaxFail == 3

\* The initial lengths of the iovec list and of the item list and the
\* lengths above which conn_shrink cuts them back.  The program has 400 and
\* 600, 200 and 400; the model keeps their proportions at a scale at which
\* a get of a few keys fills the lists.
IOV_LIST_INITIAL == 4
IOV_LIST_HIGHWAT == 6
ITEM_LIST_INITIAL == 2
ITEM_LIST_HIGHWAT == 4

(***************************************************************************)
(* Program constants.                                                      *)
(***************************************************************************)
MAX_TOKENS == 8
MAX_KEY_LEN == 255
MAX_PAYLOAD_SIZE == 1400
IOV_MAX == 1024
DATA_BUFFER_SIZE == 2048
READ_BUFFER_HIGHWAT == 8192
MSG_LIST_INITIAL == 10
MSG_LIST_HIGHWAT == 20

\* src/src/mfile.c: 1 << 12.
MAX_MMAP_SIZE == 4096

Conns == {1, 2}

SP == "SP"
CR == "CR"
LF == "LF"
CRLF == <<CR, LF>>

\* A key of MAX_KEY_LEN + 1 bytes, sent as one atom.
LONGKEY == "LONGKEY"

Digits == <<"0", "1", "2", "3", "4", "5", "6", "7", "8", "9">>

\* strlen of an atom.
ByteLen(a) ==
    CASE a = LONGKEY -> MAX_KEY_LEN + 1
      [] a \in {"get", "set"} -> 3
      [] a \in {"incr", "quit"} -> 4
      [] a \in {"append", "delete"} -> 6
      [] a = "noreply" -> 7
      [] a = "version" -> 7
      [] a \in {"verbosity", "flush_all"} -> 9
      [] OTHER -> 1

RECURSIVE StrLen(_)
StrLen(s) == IF s = <<>> THEN 0 ELSE ByteLen(Head(s)) + StrLen(Tail(s))

RECURSIVE Concat(_)
\* The concatenation of a sequence of sequences.
Concat(ss) == IF ss = <<>> THEN <<>> ELSE Head(ss) \o Concat(Tail(ss))

Min(a, b) == IF a < b THEN a ELSE b

(***************************************************************************)
(* Numbers and their decimal text.                                         *)
(***************************************************************************)
IsDigit(a) == \E d \in 1..10 : Digits[d] = a

DigitVal(a) == (CHOOSE d \in 1..10 : Digits[d] = a) - 1

RECURSIVE ParseDigits(_, _)
\* The value of the longest prefix of digits of s, continuing from acc.
ParseDigits(s, acc) ==
    IF s = <<>> \/ ~IsDigit(Head(s)) THEN acc
    ELSE ParseDigits(Tail(s), acc * 10 + DigitVal(Head(s)))

\* The number a text stands for: an optional sign, then the longest run
\* of digits; 0 when there is none.
TextValue(s) ==
    IF s # <<>> /\ Head(s) = "-" THEN 0 - ParseDigits(Tail(s), 0)
    ELSE ParseDigits(s, 0)

RECURSIVE Pow2(_)
Pow2(n) == IF n = 0 THEN 1 ELSE 2 * Pow2(n - 1)

\* The ranges of int, long and unsigned long at the widths of the model.
INT_MAX == Pow2(IntBits - 1) - 1

LONG_MAX == Pow2(LongBits - 1) - 1

ULONG_MAX == Pow2(LongBits) - 1

\* The conversion of a long or unsigned long to int: the value modulo
\* 2^IntBits.
ToInt(v) == ((v + Pow2(IntBits - 1)) % Pow2(IntBits)) - Pow2(IntBits - 1)

\* strtol(str, NULL, 10): the number, or LONG_MAX or LONG_MIN with errno
\* set to ERANGE when it is out of the range of long.
strtol(s) ==
    IF TextValue(s) > LONG_MAX THEN LONG_MAX
    ELSE IF TextValue(s) < 0 - LONG_MAX - 1 THEN 0 - LONG_MAX - 1
    ELSE TextValue(s)

strtol_ERANGE(s) == TextValue(s) > LONG_MAX \/ TextValue(s) < 0 - LONG_MAX - 1

\* strtoul(str, NULL, 10): the number, negated as an unsigned long after a
\* minus sign, or ULONG_MAX with ERANGE when its digits are out of range.
strtoul(s) ==
    IF TextValue(s) > ULONG_MAX \/ TextValue(s) < 0 - ULONG_MAX THEN ULONG_MAX
    ELSE IF TextValue(s) < 0 THEN ULONG_MAX + 1 + TextValue(s)
    ELSE TextValue(s)

strtoul_ERANGE(s) == TextValue(s) > ULONG_MAX \/ TextValue(s) < 0 - ULONG_MAX

RECURSIVE NumStr(_)
\* printf("%d") / "%llu" of a number n.
NumStr(n) ==
    IF n < 0 THEN <<"-">> \o NumStr(0 - n)
    ELSE IF n < 10 THEN <<Digits[n + 1]>>
    ELSE NumStr(n \div 10) \o <<Digits[(n % 10) + 1]>>

(***************************************************************************)
(* tokenize_command.  A command is the sequence of atoms before the NUL    *)
(* that try_read_command wrote.  A token is a non-empty run of atoms       *)
(* without SP.  The result is the tokens found (at most max_tokens - 1)    *)
(* and the terminal token's value: <<>> (the null pointer) when the whole  *)
(* string was scanned, otherwise the non-empty unprocessed rest.           *)
(***************************************************************************)
RECURSIVE TokScan(_, _, _, _, _)
TokScan(command, s, e, tokens, max_tokens) ==
    IF Len(tokens) >= max_tokens - 1 THEN [tokens |-> tokens, e |-> e]
    ELSE IF e > Len(command)
         THEN [tokens |-> IF s # e THEN Append(tokens, SubSeq(command, s, e - 1))
                          ELSE tokens,
               e |-> e]
    ELSE IF command[e] = SP
         THEN TokScan(command, e + 1, e + 1,
                      IF s # e THEN Append(tokens, SubSeq(command, s, e - 1))
                      ELSE tokens,
                      max_tokens)
    ELSE TokScan(command, s, e + 1, tokens, max_tokens)

\* A mutant: the terminal token points at the byte after the first
\* unprocessed one.
tokenize_command_skip(command, max_tokens) ==
    LET r == TokScan(command, 1, 1, <<>>, max_tokens)
    IN  [tokens |-> r.tokens,
         rest |-> IF r.e > Len(command) THEN <<>>
                  ELSE SubSeq(command, r.e + 1, Len(command)),
         ntokens |-> Len(r.tokens) + 1]

tokenize_command(command, max_tokens) ==
    LET r == TokScan(command, 1, 1, <<>>, max_tokens)
    IN  [tokens |-> r.tokens,
         rest |-> IF r.e > Len(command) THEN <<>>
                  ELSE SubSeq(command, r.e, Len(command)),
         ntokens |-> Len(r.tokens) + 1]

(***************************************************************************)
(* The connection structure (conn_new).  rbuf holds the rbytes unread      *)
(* bytes that start at rcurr; rcurr is the offset of rcurr from the start  *)
(* of the buffer.  iov is the iovec array, a fragment being the bytes not  *)
(* yet sent of it; a message header is its first iovec's index in iov      *)
(* (msg_iov) and msg_iovlen.  item holds the pending item, if any, and     *)
(* ritem the number of bytes already read into its data.  fail is the      *)
(* place among the coming try_realloc calls of the one that fails (0: none *)
(* fails).  The last fields are not in the structure and are read by the   *)
(* properties only: iovref[j] is the id of the item the j-th iovec points  *)
(* into (0: it points elsewhere), io is what the                           *)
(* last read() or sendmsg() on the socket returned ("none", "data",        *)
(* "eagain", "eof", "error"), closes the number of conn_close calls, got   *)
(* the number of items item_get and item_alloc1 gave to the connection     *)
(* (the k-th of them has the id k) and freed the ids handed to item_free,  *)
(* in the order of the calls.                                              *)
(***************************************************************************)
conn_new(init_state, read_buffer_size) ==
    [state |-> init_state,
     rbuf |-> <<>>, rcurr |-> 0, rbytes |-> 0, rsize |-> read_buffer_size,
     wbuf |-> <<>>, wbytes |-> 0,
     iov |-> <<>>, iovused |-> 0, iovsize |-> IOV_LIST_INITIAL,
     msglist |-> <<>>, msgused |-> 0, msgcurr |-> 0, msgbytes |-> 0,
     msgsize |-> MSG_LIST_INITIAL,
     ilist |-> <<>>, icurr |-> 0, ileft |-> 0, isize |-> ITEM_LIST_INITIAL,
     item |-> <<>>, ritem |-> 0, rlbytes |-> 0, item_comm |-> "NREAD_SET",
     sbytes |-> 0, write_and_go |-> "conn_read", noreply |-> FALSE,
     ev_flags |-> "AE_READABLE", fail |-> 0,
     io |-> "none", closes |-> 0, got |-> 0, freed |-> <<>>, iovref |-> <<>>]

\* try_realloc as seen by its caller: the call fails if it is the one
\* c.fail points at; AfterRealloc is the connection after the call.
ReallocFails(c) == c.fail = 1

AfterRealloc(c) == IF c.fail > 0 THEN [c EXCEPT !.fail = c.fail - 1] ELSE c

\* a[k] = v for a C array kept as a sequence (k counts from 0).
ArrayPut(a, k, v) ==
    IF k + 1 <= Len(a) THEN [a EXCEPT ![k + 1] = v]
    ELSE a \o [j \in 1..(k - Len(a)) |-> <<>>] \o <<v>>

\* The first test of conn_shrink without its condition on rbytes.
ShrinkRbuf_any_rbytes(c) ==
    IF c.rsize > READ_BUFFER_HIGHWAT
    THEN IF ReallocFails(c)
         THEN [AfterRealloc(c) EXCEPT !.rcurr = 0]
         ELSE [AfterRealloc(c) EXCEPT !.rsize = DATA_BUFFER_SIZE, !.rcurr = 0]
    ELSE c

\* The four tests of conn_shrink, in the function's order.
ShrinkRbuf(c) ==
    IF c.rsize > READ_BUFFER_HIGHWAT /\ c.rbytes < DATA_BUFFER_SIZE
    THEN IF ReallocFails(c)
         THEN [AfterRealloc(c) EXCEPT !.rcurr = 0]
         ELSE [AfterRealloc(c) EXCEPT !.rsize = DATA_BUFFER_SIZE, !.rcurr = 0]
    ELSE c

ShrinkIlist(c) ==
    IF c.isize > ITEM_LIST_HIGHWAT
    THEN IF ReallocFails(c) THEN AfterRealloc(c)
         ELSE [AfterRealloc(c) EXCEPT !.isize = ITEM_LIST_INITIAL]
    ELSE c

ShrinkMsglist(c) ==
    IF c.msgsize > MSG_LIST_HIGHWAT
    THEN IF ReallocFails(c) THEN AfterRealloc(c)
         ELSE [AfterRealloc(c) EXCEPT !.msgsize = MSG_LIST_INITIAL]
    ELSE c

ShrinkIov(c) ==
    IF c.iovsize > IOV_LIST_HIGHWAT
    THEN IF ReallocFails(c) THEN AfterRealloc(c)
         ELSE [AfterRealloc(c) EXCEPT !.iovsize = IOV_LIST_INITIAL]
    ELSE c

conn_shrink(c) == ShrinkIov(ShrinkMsglist(ShrinkIlist(ShrinkRbuf(c))))

conn_set_state(c, state) ==
    IF state # c.state
    THEN [(IF state = "conn_read" THEN conn_shrink(c) ELSE c) EXCEPT !.state = state]
    ELSE c

\* A mutant: msg_iov is left at the start of the iovec list.
add_msghdr_at_start(c) ==
    [ok |-> TRUE,
     c |-> [c EXCEPT !.msglist = ArrayPut(c.msglist, c.msgused,
                                          [msg_iov |-> 0, msg_iovlen |-> 0]),
                     !.msgbytes = 0,
                     !.msgused = c.msgused + 1]]

\* Returns [ok, c]: ok is FALSE for the C function's -1.
add_msghdr(c) ==
    LET grow == c.msgsize = c.msgused
    IN  IF grow /\ ReallocFails(c) THEN [ok |-> FALSE, c |-> AfterRealloc(c)]
        ELSE [ok |-> TRUE,
              c |-> [(IF grow THEN AfterRealloc(c) ELSE c)
                     EXCEPT !.msgsize = IF grow THEN c.msgsize * 2 ELSE c.msgsize,
                              !.msglist = ArrayPut(c.msglist, c.msgused,
                                                   [msg_iov |-> c.iovused, msg_iovlen |-> 0]),
                              !.msgbytes = 0,
                              !.msgused = c.msgused + 1]]

ensure_iov_space(c) ==
    IF c.iovused >= c.iovsize
    THEN IF ReallocFails(c) THEN [ok |-> FALSE, c |-> AfterRealloc(c)]
         ELSE [ok |-> TRUE,
               c |-> [AfterRealloc(c) EXCEPT !.iovsize = c.iovsize * 2,
                               !.msglist =
                                   [i \in 1..Len(c.msglist) |->
                                       IF i <= c.msgused
                                       THEN [c.msglist[i] EXCEPT !.msg_iov =
                                               LET RECURSIVE Sum(_)
                                                   Sum(j) == IF j = 0 THEN 0
                                                             ELSE Sum(j - 1) + c.msglist[j].msg_iovlen
                                               IN Sum(i - 1)]
                                       ELSE c.msglist[i]]]]
    ELSE [ok |-> TRUE, c |-> c]

RECURSIVE add_iov(_, _)
\* A mutant: the fragment is never split.
AddIovEntry_whole(e, buf, limit_to_mtu) ==
    IF ~e.ok THEN e
    ELSE [ok |-> TRUE,
          c |-> [e.c EXCEPT
                   !.iov = ArrayPut(e.c.iov,
                                    e.c.msglist[e.c.msgused].msg_iov
                                        + e.c.msglist[e.c.msgused].msg_iovlen,
                                    buf),
                   !.msgbytes = e.c.msgbytes + Len(buf),
                   !.iovused = e.c.iovused + 1,
                   !.msglist[e.c.msgused].msg_iovlen =
                       e.c.msglist[e.c.msgused].msg_iovlen + 1]]

\* The body of add_iov's do-while loop from the call of ensure_iov_space
\* on: e is that call's result, limit_to_mtu as in add_iov.
AddIovEntry(e, buf, limit_to_mtu) ==
    IF ~e.ok THEN e
    ELSE LET c1 == e.c
             len0 == Len(buf)
             leftover == IF limit_to_mtu /\ len0 + c1.msgbytes > MAX_PAYLOAD_SIZE
                         THEN len0 + c1.msgbytes - MAX_PAYLOAD_SIZE
                         ELSE 0
             len == len0 - leftover
             m == c1.msglist[c1.msgused]
             c2 == [c1 EXCEPT
                      !.iov = ArrayPut(c1.iov, m.msg_iov + m.msg_iovlen,
                                       SubSeq(buf, 1, len)),
                      !.msgbytes = c1.msgbytes + len,
                      !.iovused = c1.iovused + 1,
                      !.msglist[c1.msgused].msg_iovlen = m.msg_iovlen + 1]
         IN  IF leftover > 0
             THEN add_iov(c2, SubSeq(buf, len + 1, len0))
             ELSE [ok |-> TRUE, c |-> c2]

\* The same from the result h of the call of add_msghdr on (of no call:
\* ok and the connection as it was).
AddIovHdr(h, buf, limit_to_mtu) ==
    IF ~h.ok THEN h
    ELSE AddIovEntry(ensure_iov_space(h.c), buf, limit_to_mtu)

\* One pass of the do-while loop, then the loop again on the leftover.
add_iov(c, buf) ==
    LET limit_to_mtu == (1 = c.msgused)
        m0 == c.msglist[c.msgused]
        needhdr == m0.msg_iovlen = IOV_MAX
                   \/ (limit_to_mtu /\ c.msgbytes >= MAX_PAYLOAD_SIZE)
    IN  AddIovHdr(IF needhdr THEN add_msghdr(c) ELSE [ok |-> TRUE, c |-> c],
                  buf, limit_to_mtu)

\* out_string that has the connection closed after the reply.
out_string_close(c, str) ==
    IF c.noreply
    THEN conn_set_state([c EXCEPT !.noreply = FALSE], "conn_read")
    ELSE [conn_set_state([c EXCEPT !.wbuf = str \o CRLF, !.wbytes = Len(str) + 2],
                         "conn_write")
          EXCEPT !.write_and_go = "conn_closing"]

\* out_string that leaves the noreply flag set.
out_string_keep_noreply(c, str) ==
    IF c.noreply
    THEN conn_set_state(c, "conn_read")
    ELSE LET s == IF StrLen(str) + 2 > DATA_BUFFER_SIZE
                  THEN <<"SERVER_ERROR output line too long">>
                  ELSE str
         IN  [conn_set_state([c EXCEPT !.wbuf = s \o CRLF, !.wbytes = Len(s) + 2],
                             "conn_write")
              EXCEPT !.write_and_go = "conn_read"]

\* str is the reply line as a sequence of atoms; wsize is DATA_BUFFER_SIZE.
out_string(c, str) ==
    IF c.noreply
    THEN conn_set_state([c EXCEPT !.noreply = FALSE], "conn_read")
    ELSE LET s == IF StrLen(str) + 2 > DATA_BUFFER_SIZE
                  THEN <<"SERVER_ERROR output line too long">>
                  ELSE str
         IN  [conn_set_state([c EXCEPT !.wbuf = s \o CRLF, !.wbytes = Len(s) + 2],
                             "conn_write")
              EXCEPT !.write_and_go = "conn_read"]

(***************************************************************************)
(* Items and the store.  The store maps a key to its flag, version and     *)
(* value; w names the command that wrote the value last (the connection    *)
(* and the stream offset of its command line), for the properties only.    *)
(***************************************************************************)
\* id names the allocation (see conn_new): 0 until the item is handed to a
\* connection.
item_alloc1(key, flags, nbytes) ==
    [key |-> key, nkey |-> StrLen(key), flag |-> flags, ver |-> 0,
     nbytes |-> nbytes, data |-> <<>>, id |-> 0,
     suffix |-> <<SP>> \o NumStr(flags) \o <<SP>> \o NumStr(nbytes - 2) \o CRLF]

hs_get(st, key) == IF key \in DOMAIN st THEN <<st[key]>> ELSE <<>>

\* <<>> on a miss, else the item holding the stored value followed by CRLF.
item_get(st, key) ==
    LET r == hs_get(st, key)
    IN  IF r = <<>> THEN <<>>
        ELSE <<[item_alloc1(key, r[1].flag, Len(r[1].value) + 2)
                EXCEPT !.ver = r[1].ver, !.data = r[1].value \o CRLF]>>

StorePut(st, key, rec) ==
    [k \in DOMAIN st \cup {key} |-> IF k = key THEN rec ELSE st[k]]

\* The return codes hs_set / hs_append can give: 1 stored, 2 exists,
\* 3 not found, 0 not stored.
StoreRets(st, comm, key) ==
    IF comm = "NREAD_APPEND" /\ key \notin DOMAIN st THEN {0, 3} ELSE {0, 1, 2, 3}

hs_set(st, key, value, flag, ver, ret, w) ==
    IF ret = 1 THEN StorePut(st, key, [flag |-> flag, ver |-> ver, value |-> value, w |-> w])
    ELSE st

hs_append(st, key, value, ret, w) ==
    IF ret = 1
    THEN StorePut(st, key, [st[key] EXCEPT !.value = st[key].value \o value, !.w = w])
    ELSE st

store_item(st, it, comm, ret, w) ==
    IF comm = "NREAD_SET"
    THEN hs_set(st, it.key, SubSeq(it.data, 1, it.nbytes - 2), it.flag, it.ver, ret, w)
    ELSE hs_append(st, it.key, SubSeq(it.data, 1, it.nbytes - 2), ret, w)

\* item_free(it) called for connection c.
item_free(c, it) == [c EXCEPT !.freed = Append(c.freed, it.id)]

\* The result it of item_get / item_alloc1 (<<>> for NULL) as connection c
\* receives it, and c after it received it.
Tagged(c, it) == IF it = <<>> THEN it ELSE <<[it[1] EXCEPT !.id = c.got + 1]>>

Obtained(c, it) == IF it = <<>> THEN c ELSE [c EXCEPT !.got = c.got + 1]

hs_delete(st, key) == [k \in DOMAIN st \ {key} |-> st[k]]

\* hs_incr: the stored decimal value (0 when there is none) plus delta.
hs_incr_value(st, key, delta) ==
    (IF key \in DOMAIN st THEN ParseDigits(st[key].value, 0) ELSE 0) + delta

hs_incr(st, key, delta, w) ==
    StorePut(st, key,
             [flag |-> IF key \in DOMAIN st THEN st[key].flag ELSE 0,
              ver |-> IF key \in DOMAIN st THEN st[key].ver + 1 ELSE 1,
              value |-> NumStr(hs_incr_value(st, key, delta)), w |-> w])

(***************************************************************************)
(* The command handlers.  A handler maps a machine m to a machine:         *)
(*   m.c      the connection,                                              *)
(*   m.st     the store,                                                   *)
(*   m.calls  the Store calls made for the current command,                *)
(*   m.crash  TRUE once the process has died,                              *)
(*   m.w      the name of the current command (see the store).             *)
(***************************************************************************)
Call(m, call) == [m EXCEPT !.calls = Append(m.calls, call)]

Reply(m, str) == [m EXCEPT !.c = out_string(m.c, str)]

set_noreply_maybe(c, tokens, ntokens) ==
    IF ntokens >= 2 /\ tokens[ntokens - 1] = <<"noreply">>
    THEN [c EXCEPT !.noreply = TRUE]
    ELSE c

BadFormat == <<"CLIENT_ERROR bad command line format">>

\* The result a of an add_iov call that was handed memory of the item it,
\* c0 being the connection before the call: the entries the call added
\* point into the item.
Refer(a, c0, it) ==
    [a EXCEPT !.c.iovref = [j \in 1..a.c.iovused |->
                               IF j > c0.iovused THEN it.id
                               ELSE IF j <= Len(c0.iovref) THEN c0.iovref[j]
                               ELSE 0]]

\* The three add_iov calls for a found item: each is made only if the one
\* before succeeded.
AddKey(a, it) == IF a.ok THEN Refer(add_iov(a.c, it.key), a.c, it) ELSE a

\* The item's suffix handed to add_iov without the data that follows it.
AddData_suffix_only(a, it) ==
    IF a.ok THEN Refer(add_iov(a.c, it.suffix), a.c, it) ELSE a

AddData(a, it) ==
    IF a.ok THEN Refer(add_iov(a.c, it.suffix \o it.data), a.c, it) ELSE a

\* The 6 bytes of "VALUE " and the 5 of "END\r\n".
VALUE == <<"V", "A", "L", "U", "E", SP>>

END == <<"E", "N", "D">> \o CRLF

AddValue(c, it) == AddData(AddKey(add_iov(c, VALUE), it), it)

RECURSIVE GetKeys(_, _, _, _)
\* The part of the loop's body for a found item it: a is the result of the
\* add_iov calls, made after ilist was grown where needed.
GetFound(m, a, it, keys, rest, i) ==
    IF ~a.ok
    \* item_free and the break: as below
    THEN GetKeys([m EXCEPT !.c = item_free(a.c, it)], <<Head(keys)>>, <<>>, i)
    ELSE GetKeys([m EXCEPT !.c = [a.c EXCEPT !.ilist = ArrayPut(a.c.ilist, i, it)]],
                 Tail(keys), rest, i + 1)

\* The part of the loop's body after item_get, which returned it.
GetItem(m, it, keys, rest, i) ==
    IF it = <<>> THEN GetKeys(m, Tail(keys), rest, i)
    ELSE IF i >= m.c.isize /\ ReallocFails(m.c)
         \* item_free and the break: key_token still points at this key,
         \* whose string ends at the NUL the tokenizer wrote, and is
         \* tokenized again
         THEN GetKeys([m EXCEPT !.c = item_free(AfterRealloc(m.c), it[1])],
                      <<Head(keys)>>, <<>>, i)
    ELSE GetFound(m,
                  AddValue(IF i >= m.c.isize
                           THEN [AfterRealloc(m.c) EXCEPT !.isize = m.c.isize * 2]
                           ELSE m.c,
                           it[1]),
                  it[1], keys, rest, i)

\* The loop left when the token array is used up.
GetMore_stop(m, t, i) == [m |-> m, i |-> i, toolong |-> FALSE]

\* tokenize_command on the rest of the line, when the token array is used up.
GetMore(m, t, i) == GetKeys(m, t.tokens, t.rest, i)

\* The do-while loop of process_get_command: keys are the key tokens still
\* to look at in the current token array, rest its terminal token's value,
\* i the number of items placed in ilist.  The result's toolong says that
\* the loop was left by the return for an oversize key.
GetKeys(m, keys, rest, i) ==
    IF keys = <<>>
    THEN IF rest # <<>>
         THEN GetMore(m, tokenize_command(rest, MAX_TOKENS), i)
         ELSE [m |-> m, i |-> i, toolong |-> FALSE]
    ELSE IF StrLen(Head(keys)) > MAX_KEY_LEN
         THEN [m |-> m, i |-> i, toolong |-> TRUE]
    ELSE GetItem([Call(m, <<"get", Head(keys)>>)
                  EXCEPT !.c = Obtained(m.c, item_get(m.st, Head(keys)))],
                 Tagged(m.c, item_get(m.st, Head(keys))), keys, rest, i)

\* process_get_command after the loop: e is the result of the add_iov for
\* the END line.
GetEnd(m, e) ==
    IF ~e.ok
    THEN [m EXCEPT !.c = out_string(e.c,
              <<"SERVER_ERROR out of memory writing get response">>)]
    ELSE [m EXCEPT !.c = [conn_set_state(e.c, "conn_mwrite") EXCEPT !.msgcurr = 0]]

\* r is the loop's result.
GetDone(r) ==
    IF r.toolong THEN Reply(r.m, BadFormat)
    ELSE GetEnd(r.m, add_iov([r.m.c EXCEPT !.icurr = 0, !.ileft = r.i],
                             END))

process_get_command(m, tokens, ntokens) ==
    GetDone(GetKeys(m, Tail(tokens), m.rest, 0))

\* alloc is what item_alloc1 does: "ok", or it returns NULL and the stores
\* through the null pointer that follow either kill the process ("crash")
\* or are moved behind the test for NULL by the compiler ("null").
\* wide chooses what the overflow of vlen + 2 gives (it is undefined): the
\* sum, or the sum wrapped to int.  The item's ver is a 32-bit field.
process_update_command(m, tokens, ntokens, comm, alloc, wide) ==
    LET c0 == set_noreply_maybe(m.c, tokens, ntokens)
        m0 == [m EXCEPT !.c = c0]
        key == tokens[2]
        flags == ToInt(strtoul(tokens[3]))
        exptime == strtol(tokens[4])
        vlen == ToInt(strtol(tokens[5]))
        nbytes == IF vlen + 2 > INT_MAX /\ ~wide THEN ToInt(vlen + 2) ELSE vlen + 2
        errno == strtoul_ERANGE(tokens[3]) \/ strtol_ERANGE(tokens[4])
                 \/ strtol_ERANGE(tokens[5])
    IN  IF StrLen(key) > MAX_KEY_LEN THEN Reply(m0, BadFormat)
        ELSE IF errno \/ vlen < 0 THEN Reply(m0, BadFormat)
        ELSE IF alloc = "crash" THEN [m0 EXCEPT !.crash = TRUE, !.alloc = alloc]
        ELSE IF alloc = "null"
             THEN [m0 EXCEPT !.alloc = alloc,
                             !.c = [out_string(c0,
                                       <<"SERVER_ERROR out of memory storing object">>)
                                    EXCEPT !.write_and_go = "conn_swallow",
                                           !.sbytes = nbytes]]
        ELSE LET it == [item_alloc1(key, flags, nbytes)
                            EXCEPT !.ver = ToInt(exptime), !.id = c0.got + 1]
             IN  [m0 EXCEPT !.alloc = alloc,
                            !.c = conn_set_state(
                                     [c0 EXCEPT !.got = c0.got + 1,
                                                !.item = <<it>>, !.ritem = 0,
                                                !.rlbytes = it.nbytes,
                                                !.item_comm = comm],
                                     "conn_nread")]

\* safe_strtoull: the text must be a number followed by nothing.
safe_strtoull(s) ==
    [ok |-> s # <<>> /\ \A j \in 1..Len(s) : IsDigit(s[j]), value |-> ParseDigits(s, 0)]

process_arithmetic_command(m, tokens, ntokens) ==
    LET c0 == set_noreply_maybe(m.c, tokens, ntokens)
        m0 == [m EXCEPT !.c = c0]
        key == tokens[2]
        d == safe_strtoull(tokens[3])
    IN  IF StrLen(key) > MAX_KEY_LEN THEN Reply(m0, BadFormat)
        ELSE IF ~d.ok
             THEN Reply(m0, <<"CLIENT_ERROR invalid numeric delta argument">>)
        ELSE Reply([Call(m0, <<"incr", key>>)
                    EXCEPT !.st = hs_incr(m0.st, key, d.value, m0.w)],
                   NumStr(hs_incr_value(m0.st, key, d.value)))

process_delete_command(m, tokens, ntokens) ==
    LET c0 == set_noreply_maybe(m.c, tokens, ntokens)
        m0 == [m EXCEPT !.c = c0]
        key == tokens[2]
    IN  IF StrLen(key) > MAX_KEY_LEN THEN Reply(m0, BadFormat)
        ELSE Reply([Call(m0, <<"delete", key>>) EXCEPT !.st = hs_delete(m0.st, key)],
                   IF key \in DOMAIN m0.st THEN <<"DELETED">> ELSE <<"NOT_FOUND">>)

\* settings.verbose steers the logging only and is not kept; the levels the
\* clients send are in the range of strtoul.
process_verbosity_command(m, tokens, ntokens) ==
    Reply([m EXCEPT !.c = set_noreply_maybe(m.c, tokens, ntokens)], <<"OK">>)

\* The flush_all branch of process_command; ret is what hs_optimize returns.
process_flush_all(m, tokens, ntokens, ret) ==
    LET c0 == set_noreply_maybe(m.c, tokens, ntokens)
        m0 == [m EXCEPT !.c = c0]
        n == ntokens - (IF c0.noreply THEN 1 ELSE 0)
        badlimit == n >= 3 /\ ~(tokens[2] # <<>> /\ \A j \in 1..Len(tokens[2]) :
                                    IsDigit(tokens[2][j]) \/ (j = 1 /\ tokens[2][j] = "-"))
        m1 == Call(m0, <<"optimize", IF n >= 3 THEN TextValue(tokens[2]) ELSE 10000,
                         IF n >= 4 THEN tokens[3] ELSE <<"@">>>>)
    IN  IF badlimit THEN Reply(m0, BadFormat)
        ELSE IF ret = 0 THEN Reply(m1, <<"OK">>)
        ELSE IF ret = -1 THEN Reply(m1, <<"ERROR READ_ONLY">>)
        ELSE IF ret = -2 THEN Reply(m1, <<"ERROR OPTIMIZE_RUNNING">>)
        ELSE IF ret = -3 THEN Reply(m1, BadFormat)
        ELSE m1

\* The results hs_optimize can give.
OptimizeRets == {0, -1, -2, -3}

\* process_command from the test of add_msghdr's result h on; t is the
\* result of tokenize_command.  The branches of stats, optimize_stat and
\* stopme are left out: no client of the model sends these commands.
ProcessTokens(m, h, t, env) ==
    LET tokens == t.tokens
        ntokens == t.ntokens
        cmd == IF tokens = <<>> THEN <<>> ELSE tokens[1]
        m0 == [m EXCEPT !.c = h.c, !.rest = t.rest]
    IN  IF ~h.ok
        THEN [m EXCEPT !.c = out_string(h.c,
                                <<"SERVER_ERROR out of memory preparing response">>)]
        ELSE IF ntokens >= 3 /\ cmd = <<"get">>
             THEN process_get_command(m0, tokens, ntokens)
        ELSE IF ntokens \in {6, 7} /\ cmd = <<"set">>
             THEN process_update_command(m0, tokens, ntokens, "NREAD_SET", env.alloc,
                                          env.wide)
        ELSE IF ntokens \in {6, 7} /\ cmd = <<"append">>
             THEN process_update_command(m0, tokens, ntokens, "NREAD_APPEND", env.alloc,
                                          env.wide)
        ELSE IF ntokens \in {4, 5} /\ cmd = <<"incr">>
             THEN process_arithmetic_command(m0, tokens, ntokens)
        ELSE IF ntokens >= 3 /\ ntokens <= 4 /\ cmd = <<"delete">>
             THEN process_delete_command(m0, tokens, ntokens)
        ELSE IF ntokens = 2 /\ cmd = <<"version">>
             THEN Reply(m0, <<"VERSION">>)
        ELSE IF ntokens = 2 /\ cmd = <<"quit">>
             THEN [m0 EXCEPT !.c = conn_set_state(m0.c, "conn_closing")]
        ELSE IF ntokens = 3 /\ cmd = <<"verbosity">>
             THEN process_verbosity_command(m0, tokens, ntokens)
        ELSE IF ntokens >= 2 /\ ntokens <= 4 /\ cmd = <<"flush_all">>
             THEN process_flush_all(m0, tokens, ntokens, env.ret)
        ELSE Reply(m0, <<"ERROR">>)

\* env gives what the environment decides in this call (alloc for
\* item_alloc1, ret for hs_optimize, wide for the overflow of vlen + 2).
process_command(m, command, env) ==
    ProcessTokens(m,
                  add_msghdr([m.c EXCEPT !.msgcurr = 0, !.msgused = 0, !.iovused = 0,
                                         !.msglist = <<>>, !.iov = <<>>,
                                         !.iovref = <<>>]),
                  tokenize_command(command, MAX_TOKENS), env)

(***************************************************************************)
(* try_read_command and try_read_network.                                  *)
(***************************************************************************)
\* The index in rbuf of the first LF among the rbytes unread bytes, or 0.
LfIndex(c) ==
    IF \E k \in 1..c.rbytes : c.rbuf[k] = LF
    THEN CHOOSE k \in 1..c.rbytes : c.rbuf[k] = LF /\ \A j \in 1..(k - 1) : c.rbuf[j] # LF
    ELSE 0

HasLine(c) == c.rbytes # 0 /\ LfIndex(c) # 0

\* The command try_read_command hands to process_command: the bytes before
\* the LF, without a CR before the LF when more than one byte precedes it.
CommandOf(c) ==
    LET k == LfIndex(c)
    IN  IF k - 1 > 1 /\ c.rbuf[k - 1] = CR THEN SubSeq(c.rbuf, 1, k - 2)
        ELSE SubSeq(c.rbuf, 1, k - 1)

\* The bytes of rbuf after the first n.
Drop(s, n) == SubSeq(s, n + 1, Len(s))

\* A mutant: the line is taken out of the buffer with all that was read
\* after it.
TakeLine_whole_buffer(m, k) ==
    [m EXCEPT !.c = [m.c EXCEPT !.rbytes = 0,
                                !.rcurr = m.c.rcurr + m.c.rbytes,
                                !.rbuf = <<>>]]

\* try_read_command when a line is there: the machine after process_command
\* and after the line was taken out of the buffer.
TakeLine(m, k) ==
    [m EXCEPT !.c = [m.c EXCEPT !.rbytes = m.c.rbytes - k,
                                !.rcurr = m.c.rcurr + k,
                                !.rbuf = Drop(m.c.rbuf, k)]]

try_read_command(m, env) ==
    TakeLine(process_command(m, CommandOf(m.c), env), LfIndex(m.c))

RECURSIVE ReadLoop(_, _, _, _)
\* The while (1) loop of try_read_network.  sock is what the socket hands
\* over before it runs dry, last what read() returns then: "eagain", "eof"
\* or "error".  ret is the function's result, oom says that the reply for
\* a failed growth of rbuf was given to out_string.
ReadLoop(c, sock, last, gotdata) ==
    IF c.rbytes >= c.rsize /\ ReallocFails(c)
    THEN [c |-> [out_string([AfterRealloc(c) EXCEPT !.rbytes = 0, !.rbuf = <<>>],
                            <<"SERVER_ERROR out of memory reading request">>)
                 EXCEPT !.write_and_go = "conn_closing"],
          sock |-> sock, ret |-> 1, oom |-> TRUE]
    ELSE LET c1 == IF c.rbytes >= c.rsize
                   THEN [AfterRealloc(c) EXCEPT !.rsize = c.rsize * 2, !.rcurr = 0]
                   ELSE c
             avail == c1.rsize - c1.rbytes
             res == Min(avail, Len(sock))
         IN  IF res > 0
             THEN LET c2 == [c1 EXCEPT !.rbytes = c1.rbytes + res,
                                       !.rbuf = c1.rbuf \o SubSeq(sock, 1, res),
                                       !.io = "data"]
                  IN  IF res = avail
                      THEN ReadLoop(c2, Drop(sock, res), last, 1)
                      ELSE [c |-> c2, sock |-> Drop(sock, res), ret |-> 1,
                            oom |-> FALSE]
             ELSE IF last = "eagain"
                  THEN [c |-> [c1 EXCEPT !.io = last], sock |-> sock,
                        ret |-> gotdata, oom |-> FALSE]
             ELSE [c |-> conn_set_state([c1 EXCEPT !.io = last], "conn_closing"),
                   sock |-> sock, ret |-> 1, oom |-> FALSE]

try_read_network(c, sock, last) ==
    ReadLoop(IF c.rcurr # 0 THEN [c EXCEPT !.rcurr = 0] ELSE c, sock, last, 0)

(***************************************************************************)
(* transmit.  res is what sendmsg returns for the current message: the     *)
(* number of bytes it took, or -1 with eagain telling the two errors       *)
(* apart.                                                                  *)
(***************************************************************************)
\* The bytes message header h of c still has to send.
RECURSIVE MsgBytes(_, _, _)
MsgBytes(c, first, n) ==
    IF n = 0 THEN <<>> ELSE c.iov[first + 1] \o MsgBytes(c, first + 1, n - 1)

MsgLeft(c, h) == MsgBytes(c, c.msglist[h + 1].msg_iov, c.msglist[h + 1].msg_iovlen)

RECURSIVE Trim_whole_entries(_, _, _)
\* A mutant: the entry written in part is not adjusted.
Trim_whole_entries(c, h, res) ==
    IF c.msglist[h + 1].msg_iovlen > 0 /\ res >= Len(c.iov[c.msglist[h + 1].msg_iov + 1])
    THEN Trim_whole_entries(
             [c EXCEPT !.msglist[h + 1] =
                           [msg_iov |-> c.msglist[h + 1].msg_iov + 1,
                            msg_iovlen |-> c.msglist[h + 1].msg_iovlen - 1],
                       !.iov[c.msglist[h + 1].msg_iov + 1] = <<>>],
             h, res - Len(c.iov[c.msglist[h + 1].msg_iov + 1]))
    ELSE c

RECURSIVE Trim(_, _, _)
\* The loop that removes the completed iovec entries, then the adjustment
\* of the entry written in part.  An entry the loop has passed is never
\* read again (process_command restarts at iovused = 0 and add_iov writes
\* an entry before it is used), so the model empties it: states that
\* differ in such entries only are one state.
Trim(c, h, res) ==
    LET m == c.msglist[h + 1]
    IN  IF m.msg_iovlen > 0 /\ res >= Len(c.iov[m.msg_iov + 1])
        THEN Trim([c EXCEPT !.msglist[h + 1] =
                       [msg_iov |-> m.msg_iov + 1, msg_iovlen |-> m.msg_iovlen - 1],
                            !.iov[m.msg_iov + 1] = <<>>],
                  h, res - Len(c.iov[m.msg_iov + 1]))
        ELSE IF res > 0
             THEN [c EXCEPT !.iov[m.msg_iov + 1] = Drop(c.iov[m.msg_iov + 1], res)]
             ELSE c

\* transmit that leaves the connection's state alone when sendmsg fails.
transmit_keep_state(c, res, eagain) ==
    LET c1 == IF c.msgcurr < c.msgused /\ c.msglist[c.msgcurr + 1].msg_iovlen = 0
              THEN [c EXCEPT !.msgcurr = c.msgcurr + 1]
              ELSE c
    IN  IF c1.msgcurr < c1.msgused
        THEN IF res > 0
             THEN [r |-> "TRANSMIT_INCOMPLETE", c |-> Trim(c1, c1.msgcurr, res),
                   sent |-> SubSeq(MsgLeft(c1, c1.msgcurr), 1, res)]
             ELSE IF res = -1 /\ eagain
                  THEN [r |-> "TRANSMIT_SOFT_ERROR",
                        c |-> [c1 EXCEPT !.ev_flags = "AE_WRITABLE"], sent |-> <<>>]
             ELSE [r |-> "TRANSMIT_HARD_ERROR", c |-> c1, sent |-> <<>>]
        ELSE [r |-> "TRANSMIT_COMPLETE", c |-> c1, sent |-> <<>>]

\* transmit that reports the whole list as sent after one sendmsg that took
\* bytes.
transmit_once(c, res, eagain) ==
    IF c.msgcurr < c.msgused /\ res > 0
    THEN [r |-> "TRANSMIT_COMPLETE", c |-> Trim(c, c.msgcurr, res),
          sent |-> SubSeq(MsgLeft(c, c.msgcurr), 1, res)]
    ELSE [r |-> "TRANSMIT_COMPLETE", c |-> c, sent |-> <<>>]

\* transmit that returns TRANSMIT_SOFT_ERROR without the update_event call.
transmit_no_event(c, res, eagain) ==
    LET c1 == IF c.msgcurr < c.msgused /\ c.msglist[c.msgcurr + 1].msg_iovlen = 0
              THEN [c EXCEPT !.msgcurr = c.msgcurr + 1]
              ELSE c
    IN  IF c1.msgcurr < c1.msgused
        THEN IF res > 0
             THEN [r |-> "TRANSMIT_INCOMPLETE", c |-> Trim(c1, c1.msgcurr, res),
                   sent |-> SubSeq(MsgLeft(c1, c1.msgcurr), 1, res)]
             ELSE IF res = -1 /\ eagain
                  THEN [r |-> "TRANSMIT_SOFT_ERROR", c |-> c1, sent |-> <<>>]
             ELSE [r |-> "TRANSMIT_HARD_ERROR",
                   c |-> conn_set_state(c1, "conn_closing"), sent |-> <<>>]
        ELSE [r |-> "TRANSMIT_COMPLETE", c |-> c1, sent |-> <<>>]

transmit(c, res, eagain) ==
    LET c1 == IF c.msgcurr < c.msgused /\ c.msglist[c.msgcurr + 1].msg_iovlen = 0
              THEN [c EXCEPT !.msgcurr = c.msgcurr + 1]
              ELSE c
    IN  IF c1.msgcurr < c1.msgused
        THEN IF res > 0
             THEN [r |-> "TRANSMIT_INCOMPLETE", c |-> Trim(c1, c1.msgcurr, res),
                   sent |-> SubSeq(MsgLeft(c1, c1.msgcurr), 1, res)]
             ELSE IF res = -1 /\ eagain
                  THEN [r |-> "TRANSMIT_SOFT_ERROR",
                        c |-> [c1 EXCEPT !.ev_flags = "AE_WRITABLE"], sent |-> <<>>]
             ELSE [r |-> "TRANSMIT_HARD_ERROR",
                   c |-> conn_set_state(c1, "conn_closing"), sent |-> <<>>]
        ELSE [r |-> "TRANSMIT_COMPLETE", c |-> c1, sent |-> <<>>]

\* What sendmsg can return for the current message of c: every count of
\* bytes up to the message's length (0 for an empty message), EAGAIN, or
\* another error.
\* io is what the call means for the socket ("none": transmit had nothing
\* to send and did not call sendmsg).
SendResults(c) ==
    LET h == IF c.msgcurr < c.msgused /\ c.msglist[c.msgcurr + 1].msg_iovlen = 0
             THEN c.msgcurr + 1 ELSE c.msgcurr
    IN  IF h >= c.msgused THEN {[res |-> 0, eagain |-> FALSE, io |-> "none"]}
        ELSE (IF MsgLeft(c, h) = <<>> THEN {[res |-> 0, eagain |-> FALSE, io |-> "error"]}
              ELSE {[res |-> n, eagain |-> FALSE, io |-> "data"] :
                       n \in 1..Len(MsgLeft(c, h))})
             \cup {[res |-> -1, eagain |-> TRUE, io |-> "eagain"],
                   [res |-> -1, eagain |-> FALSE, io |-> "error"]}

\* complete_nread: ret is what store_item returns.
\* item_free(c->item); c->item = 0.
ReleaseItem(m) == [m EXCEPT !.c = [item_free(m.c, m.c.item[1]) EXCEPT !.item = <<>>]]

\* complete_nread without the test of the chunk's last two bytes.
complete_nread_unchecked(m, ret) ==
    ReleaseItem(Reply([Call(m, <<m.c.item_comm, m.c.item[1].key, ret>>)
                       EXCEPT !.st = store_item(m.st, m.c.item[1], m.c.item_comm, ret, m.w)],
                      CASE ret = 1 -> <<"STORED">>
                        [] ret = 2 -> <<"EXISTS">>
                        [] ret = 3 -> <<"NOT_FOUND">>
                        [] OTHER -> <<"NOT_STORED">>))

complete_nread(m, ret) ==
    LET it == m.c.item[1]
        comm == m.c.item_comm
    IN  ReleaseItem(
            IF SubSeq(it.data, it.nbytes - 1, it.nbytes) # CRLF
            THEN Reply(m, <<"CLIENT_ERROR bad data chunk">>)
            ELSE Reply([Call(m, <<comm, it.key, ret>>)
                        EXCEPT !.st = store_item(m.st, it, comm, ret, m.w)],
                       CASE ret = 1 -> <<"STORED">>
                         [] ret = 2 -> <<"EXISTS">>
                         [] ret = 3 -> <<"NOT_FOUND">>
                         [] OTHER -> <<"NOT_STORED">>))

\* The loop that frees the ileft items from icurr on.
FreeOwned(c) ==
    [c EXCEPT !.freed = c.freed \o [j \in 1..c.ileft |-> c.ilist[c.icurr + j].id],
              !.icurr = c.icurr + c.ileft, !.ileft = 0]

\* conn_cleanup: the pending item, then the items from icurr on.
conn_cleanup(c) ==
    FreeOwned(IF c.item # <<>> THEN [item_free(c, c.item[1]) EXCEPT !.item = <<>>]
              ELSE c)

conn_close(c) ==
    [conn_cleanup(c) EXCEPT !.state = "closed", !.ev_flags = "0",
                            !.closes = c.closes + 1]

(***************************************************************************)
(* The state: the clients, the sockets, the reactor.                       *)
(***************************************************************************)
\* The bytes of a command: its words with one SP between them, the line
\* terminator, then the bytes that follow the line.
RECURSIVE Join(_)
Join(words) ==
    IF words = <<>> THEN <<>>
    ELSE IF Len(words) = 1 THEN Head(words)
    ELSE Head(words) \o <<SP>> \o Join(Tail(words))

Bytes(cmd) == Join(cmd.line) \o cmd.eol \o cmd.body

RECURSIVE ScriptBytes(_)
ScriptBytes(sc) == IF sc = <<>> THEN <<>> ELSE Bytes(Head(sc)) \o ScriptBytes(Tail(sc))

\* The stream offset of rcurr: the bytes read from the socket that are no
\* longer in rbuf.
Pos(c) == nread[c] - conn[c].rbytes

\* The bytes of its stream connection c has not read yet.
Unread(c) == Drop(stream[c], nread[c])

\* What one read() of up to max bytes on the socket of c can return: some
\* of the unread bytes, or EAGAIN, end of stream once everything was read,
\* or another error.
ReadResults(c, max) ==
    {[res |-> n, err |-> "none"] : n \in 1..Min(max, Len(Unread(c)))}
    \cup {[res |-> -1, err |-> "eagain"], [res |-> -1, err |-> "error"]}
    \cup (IF Unread(c) = <<>> THEN {[res |-> 0, err |-> "eof"]} ELSE {})

Machine(c, fail) ==
    [c |-> [conn[c] EXCEPT !.fail = fail], st |-> store, calls |-> <<>>,
     crash |-> FALSE, w |-> <<c, Pos(c)>>, rest |-> <<>>, alloc |-> "none"]

\* The machine of a step that continues the command parsed last.
MachineOn(c, fail) ==
    [Machine(c, fail) EXCEPT !.w = <<c, out[c][Len(out[c])].start>>]

\* The entry of out[c] for a command line at stream offset start (-1: a
\* reply to no command); alloc is what item_alloc1 did for it ("none" when
\* it was not called), failed the number of try_realloc calls that failed
\* in process_command (0 or 1), command the string handed to process_command, snap
\* the store when the command was parsed.
Entry(start, calls, alloc, failed, command) ==
    [start |-> start, bytes |-> <<>>, calls |-> calls, alloc |-> alloc,
     failed |-> failed, command |-> command, snap |-> store]

\* out[c] after the socket took bytes and the Store calls were made.
Logged(c, bytes, calls) ==
    LET o == IF out[c] = <<>> THEN <<Entry(-1, <<>>, "none", 0, <<>>)>> ELSE out[c]
        n == Len(o)
    IN  IF bytes = <<>> /\ calls = <<>> THEN out[c]
        ELSE [o EXCEPT ![n] = [o[n] EXCEPT !.bytes = o[n].bytes \o bytes,
                                           !.calls = o[n].calls \o calls]]

\* The stored data the server opens with.
InitStore ==
    [k \in {<<"A">>, <<"B">>} |->
        [flag |-> 0, ver |-> 1, value |-> IF k = <<"A">> THEN <<"1">> ELSE <<"2">>,
         w |-> <<0, 0>>]]

InitWith(scripts) ==
    /\ script \in scripts
    /\ stream = [c \in Conns |-> ScriptBytes(script[c])]
    \* a connection whose client sends nothing is never accepted
    /\ conn = [c \in Conns |-> IF script[c] = <<>>
                                THEN [conn_new("conn_read", ReadBufferSize)
                                      EXCEPT !.state = "closed", !.ev_flags = "0"]
                                ELSE conn_new("conn_read", ReadBufferSize)]
    /\ store = InitStore
    /\ alive = TRUE
    /\ nread = [c \in Conns |-> 0]
    /\ drv = [c \in Conns |-> IF script[c] = <<>> THEN "closed" ELSE "wait"]
    /\ out = [c \in Conns |-> <<>>]

(***************************************************************************)
(* The reactor calls drive_machine for a waiting connection (its event     *)
(* may turn out not to be ready: the read or write then returns EAGAIN).   *)
(***************************************************************************)
Dispatch(c) ==
    /\ alive
    /\ drv[c] = "wait"
    /\ drv' = [drv EXCEPT ![c] = "run"]
    /\ UNCHANGED <<conn, store, alive, script, stream, nread, out, sidevars>>

(***************************************************************************)
(* drive_machine, one action per case of its switch; each action is one    *)
(* pass of the while loop.  Running(c, st) says that c is inside           *)
(* drive_machine, at the top of the loop, in state st.                     *)
(***************************************************************************)
Running(c, st) == alive /\ drv[c] = "run" /\ conn[c].state = st

Done(c) == [c EXCEPT !.fail = 0]

AllocResults == {"ok", "null", "crash"}

\* rcurr and rbytes of cn name memory outside of rbuf.
Wild(cn) == cn.rcurr < 0 \/ cn.rbytes < 0 \/ cn.rcurr + cn.rbytes > cn.rsize

\* What an int holds after a sum v was stored in it: v, or when v is above
\* INT_MAX (the overflow is undefined) the sum wrapped or as it is.
IntSum(v) == IF v > INT_MAX THEN {ToInt(v), v} ELSE {v}

\* A count handed to read() or memcpy(), which take a size_t: a negative
\* int is a count above everything the stream of c holds.
SizeT(c, n) == IF n < 0 THEN Len(stream[c]) + 1 ELSE n

\* case conn_read with rcurr outside of rbuf: memchr in try_read_command
\* (l.1295) reads from rcurr, and when it finds no line the memmove of
\* try_read_network copies rbytes bytes from there; the pass ends in a
\* memory fault.
ReadFault(c) ==
    /\ alive' = FALSE
    /\ UNCHANGED <<conn, store, out>>

\* case conn_read, a command line is in rbuf: try_read_command returns 1.
drive_read_command(c) ==
    /\ Running(c, "conn_read")
    /\ IF Wild(conn[c]) THEN TRUE ELSE HasLine(conn[c])
    /\ IF Wild(conn[c]) THEN ReadFault(c) ELSE
       \E alloc \in AllocResults, ret \in OptimizeRets, fail \in 0..MaxFail,
          wide \in BOOLEAN :
       \E m \in {try_read_command(Machine(c, fail),
                                   [alloc |-> alloc, ret |-> ret, wide |-> wide])} :
              /\ conn' = [conn EXCEPT ![c] = Done(m.c)]
              /\ store' = m.st
              /\ alive' = ~m.crash
              /\ out' = [out EXCEPT ![c] = Append(@, Entry(Pos(c), m.calls, m.alloc,
                                                               IF fail > 0 /\ m.c.fail = 0
                                                               THEN 1 ELSE 0,
                                                               CommandOf(conn[c])))]
    /\ UNCHANGED <<script, stream, nread, drv, sidevars>>

\* case conn_read, no command line in rbuf: try_read_network.  The socket
\* hands over n bytes and then returns last.
drive_read_network(c) ==
    /\ Running(c, "conn_read")
    /\ ~Wild(conn[c])
    /\ ~HasLine(conn[c])
    /\ \E n \in 0..Len(Unread(c)), last \in {"eagain", "eof", "error"}, fail \in 0..MaxFail :
          /\ last = "eof" => n = Len(Unread(c))
          /\ \E r \in {try_read_network([conn[c] EXCEPT !.fail = fail],
                                         SubSeq(Unread(c), 1, n), last)} :
                 /\ nread' = [nread EXCEPT ![c] = @ + n - Len(r.sock)]
                 /\ IF r.ret # 0
                    THEN /\ conn' = [conn EXCEPT ![c] = Done(r.c)]
                         /\ drv' = drv
                    ELSE /\ conn' = [conn EXCEPT ![c] = [Done(r.c) EXCEPT !.ev_flags = "AE_READABLE"]]
                         /\ drv' = [drv EXCEPT ![c] = "wait"]
                 /\ out' = IF r.oom THEN [out EXCEPT ![c] = Append(@, Entry(-1, <<>>, "none", 0, <<>>))]
                           ELSE out
    /\ UNCHANGED <<store, alive, script, stream, sidevars>>

\* case conn_nread.
drive_nread(c) ==
    /\ Running(c, "conn_nread")
    /\ LET cn == conn[c]
           it == cn.item[1]
       IN  IF cn.rlbytes = 0
           THEN \E ret \in StoreRets(store, cn.item_comm, it.key) :
                \E m \in {complete_nread(MachineOn(c, 0), ret)} :
                       /\ conn' = [conn EXCEPT ![c] = Done(m.c)]
                       /\ store' = m.st
                       /\ out' = [out EXCEPT ![c] = Logged(c, <<>>, m.calls)]
                       /\ UNCHANGED <<nread, drv, alive>>
           ELSE IF cn.rbytes > 0 /\ cn.rlbytes < 0
           \* memcpy is handed a negative tocopy as its size_t count and
           \* runs out of the mapped memory
           THEN /\ alive' = FALSE
                /\ UNCHANGED <<conn, store, nread, drv, out>>
           ELSE IF cn.rbytes > 0
           THEN LET tocopy == IF cn.rbytes > cn.rlbytes THEN cn.rlbytes ELSE cn.rbytes
                IN  /\ alive' = alive
                    /\ conn' = [conn EXCEPT ![c] =
                           [cn EXCEPT !.item = <<[it EXCEPT !.data = it.data \o SubSeq(cn.rbuf, 1, tocopy)]>>,
                                      !.ritem = cn.ritem + tocopy,
                                      !.rlbytes = cn.rlbytes - tocopy,
                                      !.rcurr = cn.rcurr + tocopy,
                                      !.rbytes = cn.rbytes - tocopy,
                                      !.rbuf = Drop(cn.rbuf, tocopy)]]
                    /\ UNCHANGED <<store, nread, drv, out>>
           ELSE \E r \in ReadResults(c, SizeT(c, cn.rlbytes)) :
                   /\ UNCHANGED <<store, out, alive>>
                   /\ IF r.res > 0
                      THEN /\ conn' = [conn EXCEPT ![c] =
                                  [cn EXCEPT !.item = <<[it EXCEPT !.data =
                                                 it.data \o SubSeq(Unread(c), 1, r.res)]>>,
                                             !.ritem = cn.ritem + r.res,
                                             !.rlbytes = cn.rlbytes - r.res,
                                             !.io = "data"]]
                           /\ nread' = [nread EXCEPT ![c] = @ + r.res]
                           /\ drv' = drv
                      ELSE IF r.err = "eagain"
                      THEN /\ conn' = [conn EXCEPT ![c] = [cn EXCEPT !.ev_flags = "AE_READABLE",
                                                                      !.io = r.err]]
                           /\ drv' = [drv EXCEPT ![c] = "wait"]
                           /\ nread' = nread
                      ELSE /\ conn' = [conn EXCEPT ![c] =
                                  conn_set_state([cn EXCEPT !.io = r.err], "conn_closing")]
                           /\ UNCHANGED <<nread, drv>>
    /\ UNCHANGED <<script, stream, sidevars>>

\* case conn_swallow.
drive_swallow(c) ==
    /\ Running(c, "conn_swallow")
    /\ LET cn == conn[c]
       IN  IF cn.sbytes = 0
           THEN /\ conn' = [conn EXCEPT ![c] = conn_set_state(cn, "conn_read")]
                /\ UNCHANGED <<nread, drv>>
           ELSE IF cn.rbytes > 0
           \* tocopy is negative when sbytes is; rbuf, the bytes from rcurr
           \* on, is then left as it is, the bytes before it being unknown
           THEN LET tocopy == IF cn.rbytes > cn.sbytes THEN cn.sbytes ELSE cn.rbytes
                IN  /\ \E rbytes \in IntSum(cn.rbytes - tocopy) :
                          conn' = [conn EXCEPT ![c] =
                              [cn EXCEPT !.sbytes = cn.sbytes - tocopy,
                                         !.rcurr = cn.rcurr + tocopy,
                                         !.rbytes = rbytes,
                                         !.rbuf = IF tocopy < 0 THEN cn.rbuf
                                                  ELSE Drop(cn.rbuf, tocopy)]]
                    /\ UNCHANGED <<nread, drv>>
           ELSE \E r \in ReadResults(c, SizeT(c, IF cn.rsize > cn.sbytes THEN cn.sbytes
                                                  ELSE cn.rsize)) :
                   IF r.res > 0
                   THEN /\ conn' = [conn EXCEPT ![c] = [cn EXCEPT !.sbytes = cn.sbytes - r.res,
                                                                   !.io = "data"]]
                        /\ nread' = [nread EXCEPT ![c] = @ + r.res]
                        /\ drv' = drv
                   ELSE IF r.err = "eagain"
                   THEN /\ conn' = [conn EXCEPT ![c] = [cn EXCEPT !.ev_flags = "AE_READABLE",
                                                                   !.io = r.err]]
                        /\ drv' = [drv EXCEPT ![c] = "wait"]
                        /\ nread' = nread
                   ELSE /\ conn' = [conn EXCEPT ![c] =
                               conn_set_state([cn EXCEPT !.io = r.err], "conn_closing")]
                        /\ UNCHANGED <<nread, drv>>
    /\ UNCHANGED <<store, alive, script, stream, out, sidevars>>

\* The switch on transmit's result, shared by conn_write and conn_mwrite.
\* c0 is the connection when transmit is called.  try_realloc is called
\* here only by conn_set_state (conn_shrink) once the reply is complete.
Transmitted(c, c0) ==
    \E s \in SendResults(c0) :
       \E t \in {transmit(c0, s.res, s.eagain)} :
       \E fail \in IF t.r = "TRANSMIT_COMPLETE" THEN 0..MaxFail ELSE {0} :
          LET c1 == [t.c EXCEPT !.io = s.io, !.fail = fail]
          IN  /\ out' = [out EXCEPT ![c] = Logged(c, t.sent, <<>>)]
              /\ drv' = IF t.r = "TRANSMIT_SOFT_ERROR" THEN [drv EXCEPT ![c] = "wait"]
                        ELSE drv
              /\ conn' = [conn EXCEPT ![c] =
                    Done(IF t.r = "TRANSMIT_COMPLETE"
                         THEN IF c1.state = "conn_mwrite"
                              THEN conn_set_state(FreeOwned(c1), "conn_read")
                              ELSE IF c1.state = "conn_write"
                              THEN conn_set_state(c1, c1.write_and_go)
                              ELSE conn_set_state(c1, "conn_closing")
                         ELSE c1)]

\* case conn_write.  With msgused = 0 add_iov reads the message header
\* before the first of msglist: the process dies of it, or nothing is added.
drive_write(c) ==
    /\ Running(c, "conn_write")
    /\ LET cn == conn[c]
       IN  IF cn.iovused = 0 /\ cn.msgused = 0
           THEN \/ /\ alive' = FALSE
                   /\ UNCHANGED <<conn, drv, out>>
                \/ /\ alive' = alive
                   /\ Transmitted(c, cn)
           ELSE /\ alive' = alive
                /\ \E a \in {IF cn.iovused = 0
                               THEN add_iov(cn, cn.wbuf)
                               ELSE [ok |-> TRUE, c |-> cn]} :
                          IF ~a.ok
                          THEN /\ conn' = [conn EXCEPT ![c] =
                                              Done(conn_set_state(a.c, "conn_closing"))]
                               /\ UNCHANGED <<drv, out>>
                          ELSE Transmitted(c, a.c)
    /\ UNCHANGED <<store, script, stream, nread, sidevars>>

\* case conn_mwrite.
drive_mwrite(c) ==
    /\ Running(c, "conn_mwrite")
    /\ Transmitted(c, conn[c])
    /\ UNCHANGED <<store, alive, script, stream, nread, sidevars>>

\* case conn_closing.
drive_closing(c) ==
    /\ Running(c, "conn_closing")
    /\ conn' = [conn EXCEPT ![c] = conn_close(conn[c])]
    /\ drv' = [drv EXCEPT ![c] = "closed"]
    /\ UNCHANGED <<store, alive, script, stream, nread, out, sidevars>>

Next ==
    \E c \in Conns :
       \/ Dispatch(c)
       \/ drive_read_command(c)
       \/ drive_read_network(c)
       \/ drive_nread(c)
       \/ drive_swallow(c)
       \/ drive_write(c)
       \/ drive_mwrite(c)
       \/ drive_closing(c)

(***************************************************************************)
(* The clients' scripts.                                                   *)
(***************************************************************************)
Cmd(line, body) == [line |-> line, eol |-> CRLF, body |-> body]

\* The same command with a bare LF after its line.
BareLf(cmd) == [cmd EXCEPT !.eol = <<LF>>]

W(a) == <<a>>

Get(keys) == Cmd(<<W("get")>> \o keys, <<>>)

\* set / append of key with flags 0, version 1 and the length len, followed
\* by body; nr is <<>> or the noreply word.
Update(op, key, len, nr, body) ==
    Cmd(<<W(op), key, W("0"), W("1"), NumStr(len)>> \o nr, body)

NR == <<W("noreply")>>

A == W("A")
B == W("B")
C == W("C")

Menu ==
    { Get(<<A>>),
      Get(<<A, C, B>>),
      Get(<<A, B, C, A, B, C, A, B>>),
      Get(<<W(LONGKEY)>>),
      Get(<<A, W(LONGKEY)>>),
      Update("set", C, 1, <<>>, <<"x">> \o CRLF),
      Update("set", A, 1, NR, <<"x">> \o CRLF),
      Update("set", C, 5, <<>>, <<"a", "b", "c", "d", "e">> \o CRLF),
      Update("set", A, 1, <<>>, <<"x", "y", LF>>),
      Update("set", A, 1, NR, <<"x", "y", LF>>),
      Update("set", A, 0, <<>>, CRLF),
      Update("set", C, 5, <<>>, <<"a">>),
      Update("append", A, 1, <<>>, <<"x">> \o CRLF),
      Update("append", A, 1, NR, <<"x">> \o CRLF),
      Update("set", W(LONGKEY), 1, NR, <<>>),
      Cmd(<<W("incr"), A, W("2")>>, <<>>),
      Cmd(<<W("incr"), A, W("2")>> \o NR, <<>>),
      Cmd(<<W("incr"), W(LONGKEY), W("2")>>, <<>>),
      Cmd(<<W("delete"), A>>, <<>>),
      Cmd(<<W("delete"), A>> \o NR, <<>>),
      Cmd(<<W("delete"), W(LONGKEY)>>, <<>>),
      Cmd(<<W("verbosity"), W("1")>>, <<>>),
      Cmd(<<W("verbosity"), W("1")>> \o NR, <<>>),
      Cmd(<<W("flush_all")>>, <<>>),
      Cmd(<<W("flush_all")>> \o NR, <<>>),
      Cmd(<<W("flush_all"), W("1"), W("@")>> \o NR, <<>>),
      Cmd(<<W("set"), A, W("0"), W("1")>>, <<>>),
      Cmd(<<W("incr"), A>>, <<>>),
      Cmd(<<W("delete")>>, <<>>),
      Cmd(<<W("verbosity")>>, <<>>),
      Cmd(<<W("version")>>, <<>>),
      Cmd(<<W("quit")>>, <<>>),
      BareLf(Get(<<A>>)),
      BareLf(Update("set", C, 1, <<>>, <<"x">> \o CRLF)),
      BareLf(Cmd(<<W("version")>>, <<>>)),
      Cmd(<<>>, <<>>),
      BareLf(Cmd(<<>>, <<>>)) }

\* The commands a script ends with.
Follow == {Get(<<A>>), Get(<<C>>)}

\* One client sends a command of the menu and then one of Follow, or one
\* client sets C while a second one gets it.
Scripts ==
    {[c \in Conns |-> IF c = 1 THEN <<m, f>> ELSE <<>>] : m \in Menu, f \in Follow}
    \cup {[c \in Conns |-> IF c = 1 THEN <<Update("set", C, 1, <<>>, <<"x">> \o CRLF)>>
                            ELSE <<Get(<<C>>)>>]}

(***************************************************************************)
(* The mmap helper: open_mfile and close_mfile called by MThreads threads, *)
(* each holding one file at most.  A file is its size in megabytes         *)
(* (st_size >> 20).  Every access to curr_mmap_size is made with mmap_lock *)
(* held, so each locked section is one step.                               *)
(***************************************************************************)
MFileThreads == 1..MThreads

\* The sizes of the files, in megabytes; the last one is above MAX_MMAP_SIZE.
FileMbs == {0, 100, 101, 4000, 5000}

InitMmap ==
    /\ curr_mmap_size = 0
    /\ mf = [t \in MFileThreads |-> [pc |-> "idle", mb |-> 0]]

\* open_mfile, l.22-35: open and fstat succeeded on a file of mb megabytes.
mfile_stat(t) ==
    /\ mf[t].pc = "idle"
    /\ \E mb \in FileMbs : mf' = [mf EXCEPT ![t] = [pc |-> "lock", mb |-> mb]]
    /\ UNCHANGED <<curr_mmap_size, connvars, listenvars, flushvars, unitvars, poolvars>>

\* The locked section without the wait: mb is added whatever the sum is.
mfile_reserve_nowait(t) ==
    /\ mf[t].pc = "lock"
    /\ mf' = [mf EXCEPT ![t].pc = "mmap"]
    /\ curr_mmap_size' = curr_mmap_size + mf[t].mb
    /\ UNCHANGED <<connvars, listenvars, flushvars, unitvars, poolvars>>

\* open_mfile, l.37-45, with the lock held: one test of the while; the
\* thread sleeps without the lock, or adds mb and goes on.
mfile_reserve(t) ==
    /\ mf[t].pc = "lock"
    /\ IF curr_mmap_size + mf[t].mb > MAX_MMAP_SIZE /\ mf[t].mb > 100
       THEN /\ mf' = [mf EXCEPT ![t].pc = "sleep"]
            /\ UNCHANGED curr_mmap_size
       ELSE /\ mf' = [mf EXCEPT ![t].pc = "mmap"]
            /\ curr_mmap_size' = curr_mmap_size + mf[t].mb
    /\ UNCHANGED <<connvars, listenvars, flushvars, unitvars, poolvars>>

\* sleep(5) returns and the lock is taken again, l.41-42.
mfile_wake(t) ==
    /\ mf[t].pc = "sleep"
    /\ mf' = [mf EXCEPT ![t].pc = "lock"]
    /\ UNCHANGED <<curr_mmap_size, connvars, listenvars, flushvars, unitvars, poolvars>>

\* open_mfile, l.47-71: mmap succeeds (or the file is empty), or it fails
\* and mb is taken back.
mfile_mmap(t) ==
    /\ mf[t].pc = "mmap"
    /\ \/ /\ mf' = [mf EXCEPT ![t].pc = "open"]
          /\ UNCHANGED curr_mmap_size
       \/ /\ mf' = [mf EXCEPT ![t] = [pc |-> "idle", mb |-> 0]]
          /\ curr_mmap_size' = curr_mmap_size - mf[t].mb
    /\ UNCHANGED <<connvars, listenvars, flushvars, unitvars, poolvars>>

\* close_mfile, l.74-88.
close_mfile(t) ==
    /\ mf[t].pc = "open"
    /\ mf' = [mf EXCEPT ![t] = [pc |-> "idle", mb |-> 0]]
    /\ curr_mmap_size' = curr_mmap_size - mf[t].mb
    /\ UNCHANGED <<connvars, listenvars, flushvars, unitvars, poolvars>>

NextMmap ==
    \E t \in MFileThreads :
       \/ mfile_stat(t)
       \/ mfile_reserve(t)
       \/ mfile_wake(t)
       \/ mfile_mmap(t)
       \/ close_mfile(t)

\* No handler is called on its own.
(***************************************************************************)
(* The free list of connection structures: conn_init, conn_new,            *)
(* conn_close, and the growth and the shrinking of the read buffer as far  *)
(* as conn_close looks at it.                                              *)
(***************************************************************************)
Structs == 1..MaxStructs

\* conn_init, l.164-170; no structure is allocated yet.
InitPool ==
    pool = [freeconns |-> <<>>, freetotal |-> FreeTotal, freecurr |-> 0,
            mem |-> [s \in Structs |-> "free"],
            rb |-> [s \in Structs |-> [rsize |-> 0, rbytes |-> 0, rcurr |-> 0, fail |-> 0]],
            clients |-> [s \in Structs |-> 0]]

\* Returns [c, p]: c is <<>> for NULL.  A mutant: the entry is not taken
\* off the list.
do_conn_from_freelist_peek(p) ==
    IF p.freecurr > 0
    THEN [c |-> <<p.freeconns[p.freecurr]>>, p |-> p]
    ELSE [c |-> <<>>, p |-> p]

do_conn_from_freelist(p) ==
    IF p.freecurr > 0
    THEN [c |-> <<p.freeconns[p.freecurr]>>, p |-> [p EXCEPT !.freecurr = p.freecurr - 1]]
    ELSE [c |-> <<>>, p |-> p]

\* Returns [failed, p]; fails says that try_realloc returns NULL.
do_conn_add_to_freelist(p, c, fails) ==
    IF p.freecurr < p.freetotal
    THEN [failed |-> FALSE,
          p |-> [p EXCEPT !.freeconns = ArrayPut(p.freeconns, p.freecurr, c),
                          !.freecurr = p.freecurr + 1]]
    ELSE IF ~fails
    THEN [failed |-> FALSE,
          p |-> [p EXCEPT !.freetotal = p.freetotal * 2,
                          !.freeconns = ArrayPut(p.freeconns, p.freecurr, c),
                          !.freecurr = p.freecurr + 1]]
    ELSE [failed |-> TRUE, p |-> p]

\* The two wrappers take the free list's mutex around the call.
conn_from_freelist(p) == do_conn_from_freelist(p)

conn_add_to_freelist(p, c, fails) == do_conn_add_to_freelist(p, c, fails)

conn_free(p, c) == [p EXCEPT !.mem[c] = "free"]

\* The end of conn_new and of conn_close: the structure goes to the free
\* list, or is freed if the list does not take it.
AddOrFree(a, c) == IF a.failed THEN conn_free(a.p, c) ELSE a.p

\* conn_new for a client, where r is what conn_from_freelist returned and
\* c the structure: the one from the list, or the one try_calloc returned.
\* outcome "ok": the connection is handed to the client; "nomem": a
\* buffer could not be allocated; "noevent": add_event failed.
NewConn(r, c, outcome, fails) ==
    IF r.c = <<>> /\ outcome = "nomem" THEN conn_free(r.p, c)
    ELSE IF outcome = "noevent"
    THEN AddOrFree(conn_add_to_freelist(
                       [r.p EXCEPT !.mem[c] = "used",
                                   !.rb[c] = IF r.c = <<>>
                                             THEN [rsize |-> DATA_BUFFER_SIZE, rbytes |-> 0,
                                                   rcurr |-> 0, fail |-> 0]
                                             ELSE r.p.rb[c]],
                       c, fails), c)
    ELSE [r.p EXCEPT !.mem[c] = "used",
                     !.rb[c] = IF r.c = <<>>
                               THEN [rsize |-> DATA_BUFFER_SIZE, rbytes |-> 0,
                                     rcurr |-> 0, fail |-> 0]
                               ELSE r.p.rb[c],
                     !.clients[c] = r.p.clients[c] + 1]

pool_conn_new ==
    /\ \E r \in {conn_from_freelist(pool)}, outcome \in {"ok", "nomem", "noevent"},
          fails \in BOOLEAN :
          \E c \in IF r.c # <<>> THEN {r.c[1]} ELSE {s \in Structs : pool.mem[s] = "free"} :
              pool' = NewConn(r, c, outcome, fails)
    /\ UNCHANGED <<connvars, listenvars, flushvars, mmapvars, unitvars>>

\* try_read_network doubles a read buffer that is full, l.1337-1348.
pool_grow(c) ==
    /\ pool.clients[c] > 0
    /\ pool.rb[c].rsize <= READ_BUFFER_HIGHWAT
    /\ pool' = [pool EXCEPT !.rb[c].rsize = pool.rb[c].rsize * 2]
    /\ UNCHANGED <<connvars, listenvars, flushvars, mmapvars, unitvars>>

\* conn_shrink on the way back to conn_read.
pool_shrink(c) ==
    /\ pool.clients[c] > 0
    /\ \E fail \in {0, 1} :
          pool' = [pool EXCEPT !.rb[c] =
                      [ShrinkRbuf([pool.rb[c] EXCEPT !.fail = fail]) EXCEPT !.fail = 0]]
    /\ UNCHANGED <<connvars, listenvars, flushvars, mmapvars, unitvars>>

\* conn_close, l.368-371.
pool_conn_close(c) ==
    /\ pool.clients[c] > 0
    /\ \E fails \in BOOLEAN :
          pool' = IF pool.rb[c].rsize > READ_BUFFER_HIGHWAT
                  THEN conn_free([pool EXCEPT !.clients[c] = pool.clients[c] - 1], c)
                  ELSE AddOrFree(conn_add_to_freelist(
                                     [pool EXCEPT !.clients[c] = pool.clients[c] - 1],
                                     c, fails), c)
    /\ UNCHANGED <<connvars, listenvars, flushvars, mmapvars, unitvars>>

NextPool ==
    \/ pool_conn_new
    \/ \E c \in Structs : pool_grow(c)
    \/ \E c \in Structs : pool_shrink(c)
    \/ \E c \in Structs : pool_conn_close(c)

InitUnit == unit = [in |-> <<>>, done |-> FALSE, res |-> <<>>]

\* No client of the request path: every connection of Conns is closed.
NoScripts == {[c \in Conns |-> <<>>]}

(***************************************************************************)
(* The shutdown: main from pthread_create on, the flush worker do_flush,   *)
(* sig_handler and the stopme command.  Each thread takes one step per     *)
(* call or test; no thread runs once the process is over.                  *)
(***************************************************************************)
Signals == {"SIGTERM", "SIGQUIT", "SIGINT"}

\* After the handlers were registered (l.2181-2186); s is stopme.
InitFlush(s) ==
    /\ daemon_quit = 0
    /\ stopme = s
    /\ mainpc = "pthread_create"
    /\ flushpc = "none"
    /\ after = 0
    /\ by = "none"

ProcessRuns == mainpc \notin {"exit", "crashed", "returned"}

\* sig_handler, l.1917-1927.
sig_handler(sig) ==
    /\ ProcessRuns
    /\ daemon_quit # 1
    /\ daemon_quit' = 1
    /\ by' = sig
    /\ UNCHANGED <<stopme, mainpc, flushpc, after, connvars,
                   listenvars, mmapvars, unitvars, poolvars>>

\* The stopme branch of process_command, l.1256-1260, taken by a worker
\* of loop_run.
process_stopme ==
    /\ mainpc = "loop_run"
    /\ stopme = 1
    /\ daemon_quit' = 1
    /\ by' = IF daemon_quit = 0 THEN "stopme" ELSE by
    /\ UNCHANGED <<stopme, mainpc, flushpc, after, connvars,
                   listenvars, mmapvars, unitvars, poolvars>>

\* pthread_create, l.2190-2193: exit(1) when it fails.
main_create ==
    /\ mainpc = "pthread_create"
    /\ \/ mainpc' = "loop_run" /\ flushpc' = "test"
       \/ mainpc' = "exit" /\ flushpc' = flushpc
    /\ UNCHANGED <<daemon_quit, stopme, after, by, connvars,
                   listenvars, mmapvars, unitvars, poolvars>>

\* loop_run, l.2199: it returns once daemon_quit is set.
loop_run ==
    /\ mainpc = "loop_run"
    /\ daemon_quit # 0
    /\ mainpc' = "pthread_join"
    /\ UNCHANGED <<daemon_quit, stopme, flushpc, after, by, connvars,
                   listenvars, mmapvars, unitvars, poolvars>>

\* pthread_join that does not wait for the flush worker.
main_join_nowait ==
    /\ mainpc = "pthread_join"
    /\ mainpc' = "pthread_detach"
    /\ UNCHANGED <<daemon_quit, stopme, flushpc, after, by, connvars,
                   listenvars, mmapvars, unitvars, poolvars>>

\* pthread_join, l.2203: it returns once the flush worker has returned.
main_join ==
    /\ mainpc = "pthread_join"
    /\ flushpc = "exit"
    /\ mainpc' = "pthread_detach"
    /\ UNCHANGED <<daemon_quit, stopme, flushpc, after, by, connvars,
                   listenvars, mmapvars, unitvars, poolvars>>

\* pthread_detach of the thread already joined, l.2204: undefined; it
\* returns an error or the process dies.
main_detach ==
    /\ mainpc = "pthread_detach"
    /\ mainpc' \in {"hs_close", "crashed"}
    /\ UNCHANGED <<daemon_quit, stopme, flushpc, after, by, connvars,
                   listenvars, mmapvars, unitvars, poolvars>>

\* hs_close, l.2206: the call begins, and it returns; main then returns.
main_close ==
    /\ \/ mainpc = "hs_close" /\ mainpc' = "closing"
       \/ mainpc = "closing" /\ mainpc' = "returned"
    /\ UNCHANGED <<daemon_quit, stopme, flushpc, after, by, connvars,
                   listenvars, mmapvars, unitvars, poolvars>>

\* do_flush, l.1929-1938: the test of the while, the call of hs_flush, its
\* return, and the return of sleep.
flush_test ==
    /\ ProcessRuns
    /\ flushpc = "test"
    /\ flushpc' = IF daemon_quit = 0 THEN "call" ELSE "exit"
    /\ UNCHANGED <<daemon_quit, stopme, mainpc, after, by, connvars,
                   listenvars, mmapvars, unitvars, poolvars>>

flush_call ==
    /\ ProcessRuns
    /\ flushpc = "call"
    /\ flushpc' = "hs_flush"
    /\ after' = IF daemon_quit # 0 /\ after < MaxAfter THEN after + 1 ELSE after
    /\ UNCHANGED <<daemon_quit, stopme, mainpc, by, connvars,
                   listenvars, mmapvars, unitvars, poolvars>>

flush_return ==
    /\ ProcessRuns
    /\ flushpc = "hs_flush"
    /\ flushpc' = "sleep"
    /\ UNCHANGED <<daemon_quit, stopme, mainpc, after, by, connvars,
                   listenvars, mmapvars, unitvars, poolvars>>

flush_sleep ==
    /\ ProcessRuns
    /\ flushpc = "sleep"
    /\ flushpc' = "test"
    /\ UNCHANGED <<daemon_quit, stopme, mainpc, after, by, connvars,
                   listenvars, mmapvars, unitvars, poolvars>>

do_flush == flush_test \/ flush_call \/ flush_return \/ flush_sleep

NextFlush ==
    \/ \E sig \in Signals : sig_handler(sig)
    \/ process_stopme
    \/ main_create
    \/ loop_run
    \/ main_join
    \/ main_detach
    \/ main_close
    \/ flush_test
    \/ flush_call
    \/ flush_return
    \/ flush_sleep

(***************************************************************************)
(* The listener: the conn_listening case of drive_machine, one action per  *)
(* system call, next to other threads that open and close descriptors and  *)
(* clients that connect.  open and accept return the lowest free           *)
(* descriptor and fail with EMFILE when MaxFds descriptors are open.       *)
(***************************************************************************)
Some(S) == CHOOSE d \in S : \A e \in S : d <= e

\* What open() or a successful accept() returns: -1 for EMFILE.
LowestFree(open) ==
    IF (0..(MaxFds - 1)) \ open = {} THEN -1 ELSE Some((0..(MaxFds - 1)) \ open)

\* After main (l.2169-2178): standard input, the stub and the listening
\* socket are open.
InitListen ==
    /\ fds = {0, 1, 2}
    /\ held = {}
    /\ stub_fd = 1
    /\ pending = 0
    /\ lpc = "accept"
    /\ sfd = -1
    /\ shed = 0

\* A client connects.
Connect ==
    /\ pending < Backlog
    /\ pending' = pending + 1
    /\ UNCHANGED <<fds, held, stub_fd, lpc, sfd, shed, connvars, flushvars, mmapvars, unitvars, poolvars>>

\* Another thread opens a file or a socket.
OtherOpen ==
    /\ LowestFree(fds) # -1
    /\ fds' = fds \cup {LowestFree(fds)}
    /\ held' = held \cup {LowestFree(fds)}
    /\ UNCHANGED <<stub_fd, pending, lpc, sfd, shed, connvars, flushvars, mmapvars, unitvars, poolvars>>

\* Another thread closes a descriptor it holds (conn_close among them).
OtherClose ==
    /\ \E d \in held : /\ fds' = fds \ {d}
                        /\ held' = held \ {d}
    /\ UNCHANGED <<stub_fd, pending, lpc, sfd, shed, connvars, flushvars, mmapvars, unitvars, poolvars>>

\* The accept at l.1466 with a connection waiting.  It gives a descriptor,
\* which conn_new hands to a worker (or which is closed at once when
\* fcntl or conn_new fails), or it fails with EMFILE.
Accept ==
    /\ lpc = "accept"
    /\ pending > 0
    /\ IF LowestFree(fds) # -1
       THEN /\ pending' = pending - 1
            /\ \E kept \in BOOLEAN :
                  IF kept
                  THEN /\ fds' = fds \cup {LowestFree(fds)}
                       /\ held' = held \cup {LowestFree(fds)}
                  ELSE UNCHANGED <<fds, held>>
            /\ sfd' = LowestFree(fds)
            /\ lpc' = lpc
       ELSE /\ lpc' = IF stub_fd > 0 THEN "close_stub" ELSE "accept"
            /\ sfd' = -1
            /\ UNCHANGED <<fds, held, pending>>
    /\ UNCHANGED <<stub_fd, shed, connvars, flushvars, mmapvars, unitvars, poolvars>>

\* close(stub_fd), l.1476.
CloseStub ==
    /\ lpc = "close_stub"
    /\ fds' = fds \ {stub_fd}
    /\ lpc' = "accept_again"
    /\ UNCHANGED <<held, stub_fd, pending, sfd, shed, connvars, flushvars, mmapvars, unitvars, poolvars>>

\* The accept at l.1477.
AcceptAgain ==
    /\ lpc = "accept_again"
    /\ IF pending > 0 /\ LowestFree(fds) # -1
       THEN /\ sfd' = LowestFree(fds)
            /\ fds' = fds \cup {LowestFree(fds)}
            /\ pending' = pending - 1
            /\ lpc' = "close_sfd"
       ELSE /\ sfd' = -1
            /\ lpc' = "open_stub"
            /\ UNCHANGED <<fds, pending>>
    /\ UNCHANGED <<held, stub_fd, shed, connvars, flushvars, mmapvars, unitvars, poolvars>>

\* close(sfd), l.1479.
CloseSfd ==
    /\ lpc = "close_sfd"
    /\ fds' = fds \ {sfd}
    /\ shed' = IF shed < MaxShed THEN shed + 1 ELSE shed
    /\ lpc' = "open_stub"
    /\ UNCHANGED <<held, stub_fd, pending, sfd, connvars, flushvars, mmapvars, unitvars, poolvars>>

\* stub_fd = open("/dev/null", O_RDONLY), l.1484; drive_machine then
\* returns and is called again for the listening socket.
OpenStub ==
    /\ lpc = "open_stub"
    /\ stub_fd' = LowestFree(fds)
    /\ fds' = IF LowestFree(fds) # -1 THEN fds \cup {LowestFree(fds)} ELSE fds
    /\ lpc' = "accept"
    /\ UNCHANGED <<held, pending, sfd, shed, connvars, flushvars, mmapvars, unitvars, poolvars>>

NextListen ==
    \/ Connect
    \/ OtherOpen
    \/ OtherClose
    \/ Accept
    \/ CloseStub
    \/ AcceptAgain
    \/ CloseSfd
    \/ OpenStub

ListenInit == InitWith(NoScripts) /\ InitListen /\ InitFlush(0) /\ InitMmap /\ InitPool /\ InitUnit

SpecListen == ListenInit /\ [][NextListen]_vars

\* The option -S is given or not.
FlushInit ==
    /\ InitWith(NoScripts) /\ InitListen /\ InitMmap /\ InitPool /\ InitUnit
    /\ \E s \in {0, 1} : InitFlush(s)

\* The flush worker keeps running while the process does: hs_flush and
\* sleep return.
SpecFlush ==
    FlushInit /\ [][NextFlush]_vars
    /\ WF_vars(do_flush)

MmapInit == InitWith(NoScripts) /\ InitListen /\ InitFlush(0) /\ InitMmap /\ InitPool /\ InitUnit

SpecMmap == MmapInit /\ [][NextMmap]_vars

(***************************************************************************)
(* process_update_command called on its own, on a new connection, for a    *)
(* set command whose three numbers are drawn from texts at and around the  *)
(* ranges of int and long.                                                 *)
(***************************************************************************)
FlagTexts ==
    {NumStr(0), NumStr(INT_MAX), NumStr(INT_MAX + 1), NumStr(Pow2(IntBits) + 5),
     NumStr(ULONG_MAX + 1)}

ExptimeTexts ==
    {NumStr(0), NumStr(1), NumStr(Pow2(IntBits) + 5), NumStr(LONG_MAX + 1)}

LengthTexts ==
    {NumStr(0), NumStr(3), NumStr(INT_MAX), NumStr(Pow2(IntBits) + 5),
     NumStr(LONG_MAX + 1), <<"-", "1">>}

\* The machine of a handler called on its own.
UnitMachine ==
    [c |-> conn_new("conn_read", ReadBufferSize), st |-> InitStore, calls |-> <<>>,
     crash |-> FALSE, w |-> <<0, 0>>, rest |-> <<>>, alloc |-> "none"]

InitUpdate ==
    \E f \in FlagTexts, e \in ExptimeTexts, v \in LengthTexts :
        unit = [in |-> <<W("set"), C, f, e, v>>, done |-> FALSE, res |-> <<>>]

update_unit ==
    /\ ~unit.done
    /\ \E alloc \in AllocResults, wide \in BOOLEAN :
          unit' = [unit EXCEPT !.done = TRUE,
                               !.res = process_update_command(UnitMachine, unit.in, 6,
                                                              "NREAD_SET", alloc, wide)]
    /\ UNCHANGED <<connvars, listenvars, flushvars, mmapvars, poolvars>>

NextUpdate == update_unit

UpdateInit ==
    InitWith(NoScripts) /\ InitListen /\ InitFlush(0) /\ InitMmap /\ InitPool /\ InitUpdate

SpecUpdate == UpdateInit /\ [][NextUpdate]_vars

(***************************************************************************)
(* process_command called on its own, on a new connection, for a           *)
(* flush_all line: with or without a limit, a tree and noreply.            *)
(***************************************************************************)
LimitTexts == {NumStr(1), NumStr(5), NumStr(10000), <<"-", "1">>, <<"x">>}

TreeTexts == {<<"@">>, <<"1">>, <<"a">>}

FlushAllArgs ==
    {<<>>} \cup {<<l>> : l \in LimitTexts}
           \cup {<<l, t>> : l \in LimitTexts, t \in TreeTexts}

FlushAllLines == {<<W("flush_all")>> \o a \o nr : a \in FlushAllArgs, nr \in {<<>>, NR}}

InitFlushAll ==
    \E line \in FlushAllLines, ret \in OptimizeRets :
        unit = [in |-> [line |-> line, ret |-> ret], done |-> FALSE, res |-> <<>>]

flush_all_unit ==
    /\ ~unit.done
    /\ unit' = [unit EXCEPT !.done = TRUE,
                            !.res = process_command(UnitMachine, Join(unit.in.line),
                                                    [alloc |-> "ok", ret |-> unit.in.ret,
                                                     wide |-> FALSE])]
    /\ UNCHANGED <<connvars, listenvars, flushvars, mmapvars, poolvars>>

NextFlushAll == flush_all_unit

FlushAllInit ==
    InitWith(NoScripts) /\ InitListen /\ InitFlush(0) /\ InitMmap /\ InitPool /\ InitFlushAll

SpecFlushAll == FlushAllInit /\ [][NextFlushAll]_vars

(***************************************************************************)
(* process_command called on its own, on a new connection, for a get of    *)
(* up to three keys.  The store holds a short value and two long ones,     *)
(* whose VALUE blocks end at MAX_PAYLOAD_SIZE and two bytes before it.     *)
(***************************************************************************)
D == W("D")

BigValue(n) == [i \in 1..n |-> Digits[(i % 10) + 1]]

\* "VALUE ", a key of one byte, a suffix of 9 bytes, the value and CRLF
\* make MAX_PAYLOAD_SIZE bytes for B.
GetStore ==
    [k \in {A, B, C} |->
        [flag |-> 0, ver |-> 1,
         value |-> IF k = A THEN <<"1">>
                   ELSE IF k = B THEN BigValue(MAX_PAYLOAD_SIZE - 18)
                   ELSE BigValue(MAX_PAYLOAD_SIZE - 20),
         w |-> <<0, 0>>]]

GetKeyLists ==
    {<<k>> : k \in {A, B, C, D}}
        \cup {<<k, l>> : k \in {A, B, C, D}, l \in {A, B, C, D}}
        \cup {<<k, l, n>> : k \in {A, B, C, D}, l \in {A, B, C, D}, n \in {A, B, C}}

InitGet ==
    \E keys \in GetKeyLists, fail \in 0..MaxFail :
        unit = [in |-> [keys |-> keys, fail |-> fail], done |-> FALSE, res |-> <<>>]

get_unit ==
    /\ ~unit.done
    /\ unit' = [unit EXCEPT
                  !.done = TRUE,
                  !.res = process_command(
                              [UnitMachine EXCEPT !.st = GetStore, !.c.fail = unit.in.fail],
                              Join(<<W("get")>> \o unit.in.keys),
                              [alloc |-> "ok", ret |-> 0, wide |-> FALSE])]
    /\ UNCHANGED <<connvars, listenvars, flushvars, mmapvars, poolvars>>

NextGet == get_unit

GetInit == InitWith(NoScripts) /\ InitListen /\ InitFlush(0) /\ InitMmap /\ InitPool /\ InitGet

SpecGet == GetInit /\ [][NextGet]_vars

(***************************************************************************)
(* The server with clients that send a set whose length is INT_MAX or      *)
(* INT_MAX - 1, besides a get and a set of one byte.                       *)
(***************************************************************************)
ReadMenu ==
    { Get(<<A>>),
      Update("set", C, 1, <<>>, <<"x">> \o CRLF),
      Update("set", C, INT_MAX, <<>>, <<"x">> \o CRLF),
      Update("set", C, INT_MAX - 1, <<>>, <<"x">> \o CRLF) }

ReadScripts ==
    {[c \in Conns |-> IF c = 1 THEN <<m, f>> ELSE <<>>] : m \in ReadMenu, f \in Follow}

ReadInit ==
    InitWith(ReadScripts) /\ InitListen /\ InitFlush(0) /\ InitMmap /\ InitPool /\ InitUnit

SpecRead == ReadInit /\ [][Next]_vars

(***************************************************************************)
(* add_iov called again and again on a connection for which process_command *)
(* has called add_msghdr: a reply in the building.  A call is handed a     *)
(* buffer of one of BufLens bytes; one run makes enough calls with one     *)
(* byte for a message header to reach IOV_MAX entries.                     *)
(***************************************************************************)
BufLens ==
    {1, 6, MAX_PAYLOAD_SIZE \div 2, MAX_PAYLOAD_SIZE - 1, MAX_PAYLOAD_SIZE,
     MAX_PAYLOAD_SIZE + 1, 2 * MAX_PAYLOAD_SIZE + 1}

\* The lengths of the buffers of a run's calls.
CallLens ==
    {<<k>> : k \in BufLens}
        \cup {<<k, l>> : k \in BufLens, l \in BufLens}
        \cup {<<k, l, n>> : k \in BufLens, l \in BufLens, n \in BufLens}
        \cup {[j \in 1..(IOV_MAX + 3) |-> 1]}

\* The buffer of the k-th call: its bytes are told apart.
Buf(k, len) == [i \in 1..len |-> <<k, i>>]

InitAddIov ==
    \E lens \in CallLens :
        unit = [in |-> lens, done |-> FALSE,
                res |-> [ok |-> TRUE, k |-> 0,
                         c |-> add_msghdr(conn_new("conn_read", ReadBufferSize)).c]]

add_iov_unit ==
    /\ ~unit.done
    /\ \E fail \in {0, 1} :
       \E r \in {add_iov([unit.res.c EXCEPT !.fail = fail],
                         Buf(unit.res.k + 1, unit.in[unit.res.k + 1]))} :
           unit' = [unit EXCEPT !.done = ~r.ok \/ unit.res.k + 1 = Len(unit.in),
                                !.res = [ok |-> r.ok, k |-> unit.res.k + 1, c |-> Done(r.c)]]
    /\ UNCHANGED <<connvars, listenvars, flushvars, mmapvars, poolvars>>

NextAddIov == add_iov_unit

AddIovInit ==
    InitWith(NoScripts) /\ InitListen /\ InitFlush(0) /\ InitMmap /\ InitPool /\ InitAddIov

SpecAddIov == AddIovInit /\ [][NextAddIov]_vars

(***************************************************************************)
(* transmit called again and again on a reply that add_iov has built, as   *)
(* the conn_mwrite case does.  sendmsg takes some of the bytes of the      *)
(* current message, or returns EAGAIN or another error.                    *)
(***************************************************************************)
\* The lengths of the buffers the reply was built from: one message of
\* three fragments, two messages, three messages.
ReplyLens ==
    {<<6, 1, 12>>, <<MAX_PAYLOAD_SIZE - 1, 2, 5>>, <<6, 2 * MAX_PAYLOAD_SIZE + 1, 5>>}

RECURSIVE BuildReply(_, _, _)
\* add_iov called for the buffers k, k + 1, ... of lens.
BuildReply(c, lens, k) ==
    IF k > Len(lens) THEN c
    ELSE BuildReply(add_iov(c, Buf(k, lens[k])).c, lens, k + 1)

\* The counts sendmsg is let take of the n bytes of a message whose first
\* fragment has f bytes: few, all but few, and up to the end of the first
\* fragment or one byte more or less.
SendCounts(n, f) == {k \in 1..n : k <= 2 \/ k >= n - 1 \/ (f - 1 <= k /\ k <= f + 1)}

\* sent: the bytes sendmsg has taken; r: what transmit returned last;
\* soft and part: an EAGAIN was met, a message was taken in part.
InitTransmit ==
    \E lens \in ReplyLens :
        unit = [in |-> lens, done |-> FALSE,
                res |-> [c |-> BuildReply(add_msghdr(conn_new("conn_read",
                                                              ReadBufferSize)).c,
                                          lens, 1),
                         sent |-> <<>>, r |-> "none", soft |-> FALSE, part |-> FALSE]]

\* The message transmit hands to sendmsg.
CurrentMsg(c) ==
    IF c.msgcurr < c.msgused /\ c.msglist[c.msgcurr + 1].msg_iovlen = 0
    THEN c.msgcurr + 1 ELSE c.msgcurr

Transmits ==
    IF CurrentMsg(unit.res.c) >= unit.res.c.msgused
    THEN {transmit(unit.res.c, 0, FALSE)}
    ELSE {transmit(unit.res.c, n, FALSE) :
             n \in SendCounts(Len(MsgLeft(unit.res.c, CurrentMsg(unit.res.c))),
                              Len(unit.res.c.iov[unit.res.c.msglist[
                                      CurrentMsg(unit.res.c) + 1].msg_iov + 1]))}
         \cup {transmit(unit.res.c, -1, TRUE), transmit(unit.res.c, -1, FALSE)}

transmit_unit ==
    /\ ~unit.done
    /\ \E t \in Transmits :
          unit' = [unit EXCEPT
                     !.done = t.r \in {"TRANSMIT_COMPLETE", "TRANSMIT_HARD_ERROR"},
                     !.res = [c |-> t.c, sent |-> unit.res.sent \o t.sent, r |-> t.r,
                              soft |-> unit.res.soft \/ t.r = "TRANSMIT_SOFT_ERROR",
                              part |-> unit.res.part
                                       \/ (t.r = "TRANSMIT_INCOMPLETE"
                                           /\ t.c.msglist[t.c.msgcurr + 1].msg_iovlen > 0)]]
    /\ UNCHANGED <<connvars, listenvars, flushvars, mmapvars, poolvars>>

NextTransmit == transmit_unit

TransmitInit ==
    InitWith(NoScripts) /\ InitListen /\ InitFlush(0) /\ InitMmap /\ InitPool /\ InitTransmit

SpecTransmit == TransmitInit /\ [][NextTransmit]_vars

PoolInit == InitWith(NoScripts) /\ InitListen /\ InitFlush(0) /\ InitMmap /\ InitPool /\ InitUnit

SpecPool == PoolInit /\ [][NextPool]_vars

(***************************************************************************)
(* conn_set_state called on its own, for connections whose buffer and list *)
(* sizes lie on both sides of the high-water marks.  unit.in.c is the      *)
(* connection, unit.in.state the state asked for.                          *)
(***************************************************************************)
\* rsize, with rcurr and rbytes.
ReadBuffers ==
    {b \in [rsize : {DATA_BUFFER_SIZE, READ_BUFFER_HIGHWAT, 2 * READ_BUFFER_HIGHWAT},
            rcurr : {0, 5, DATA_BUFFER_SIZE},
            rbytes : {0, 3, DATA_BUFFER_SIZE - 1, DATA_BUFFER_SIZE}] :
        b.rcurr + b.rbytes <= b.rsize}

ListSizes ==
    [isize : {ITEM_LIST_HIGHWAT, ITEM_LIST_HIGHWAT + 1},
     msgsize : {MSG_LIST_HIGHWAT, MSG_LIST_HIGHWAT + 1},
     iovsize : {IOV_LIST_HIGHWAT, IOV_LIST_HIGHWAT + 1}]

ShrinkConn(st, b, l, fail) ==
    [conn_new(st, b.rsize) EXCEPT !.rcurr = b.rcurr, !.rbytes = b.rbytes,
                                  !.rbuf = BigValue(b.rbytes),
                                  !.isize = l.isize, !.msgsize = l.msgsize,
                                  !.iovsize = l.iovsize, !.fail = fail]

InitShrink ==
    \E st \in {"conn_read", "conn_swallow", "conn_mwrite"},
       to \in {"conn_read", "conn_closing"},
       b \in ReadBuffers, l \in ListSizes, fail \in 0..(MaxFail + 1) :
        unit = [in |-> [c |-> ShrinkConn(st, b, l, fail), state |-> to],
                done |-> FALSE, res |-> <<>>]

shrink_unit ==
    /\ ~unit.done
    /\ unit' = [unit EXCEPT !.done = TRUE,
                            !.res = conn_set_state(unit.in.c, unit.in.state)]
    /\ UNCHANGED <<connvars, listenvars, flushvars, mmapvars, poolvars>>

NextShrink == shrink_unit

ShrinkInit ==
    InitWith(NoScripts) /\ InitListen /\ InitFlush(0) /\ InitMmap /\ InitPool /\ InitShrink

SpecShrink == ShrinkInit /\ [][NextShrink]_vars

(***************************************************************************)
(* The global stats record and its mutex.  STATS_LOCK and STATS_UNLOCK are *)
(* not in src/; they are a mutex: STATS_LOCK returns to one thread at a    *)
(* time, and to the next one after STATS_UNLOCK.  A statement such as      *)
(* stats.set_cmds++ is a load and a store.  Four of the counters are kept: *)
(* the three of get, which are updated together, and one that is updated   *)
(* alone.  unit.res.stats is the record, unit.res.lock the thread that     *)
(* holds the mutex (0: none), unit.res.events what the threads counted     *)
(* since the last reset, unit.res.calls the operations begun,              *)
(* unit.res.failed whether an allocation failed in a get, unit.res.th the  *)
(* threads: pc, the operation op, its local counters d, the statements     *)
(* prog it still has to run with the mutex held, the loaded value tmp and  *)
(* the values snap printed into temp.                                      *)
(***************************************************************************)
StatThreads == 1..MThreads

Counters == {"get_cmds", "get_hits", "get_misses", "set_cmds"}

Zeroes == [x \in Counters |-> 0]

\* process_get_command, l.881-954, as far as it counts: keys says for each
\* key whether it is found ("hit"), not found ("miss") or too long
\* ("long"); fail is the found key whose allocation fails (0: none).  After
\* the break the key is tokenized again, alone.
RECURSIVE GetTally(_, _, _)
GetTally(keys, fail, d) ==
    IF keys = <<>> \/ Head(keys) = "long" THEN d
    ELSE IF Head(keys) = "miss"
    THEN GetTally(Tail(keys), fail,
                  [d EXCEPT !.get_cmds = @ + 1, !.get_misses = @ + 1])
    ELSE IF fail = 1
    THEN GetTally(<<Head(keys)>>, 0, [d EXCEPT !.get_cmds = @ + 1, !.failed = TRUE])
    ELSE GetTally(Tail(keys), IF fail = 0 THEN 0 ELSE fail - 1,
                  [d EXCEPT !.get_cmds = @ + 1, !.get_hits = @ + 1])

GetLooks ==
    {<<k>> : k \in {"hit", "miss", "long"}}
        \cup {<<k, l>> : k \in {"hit", "miss"}, l \in {"hit", "miss", "long"}}

GetTallies ==
    {GetTally(keys, fail, [get_cmds |-> 0, get_hits |-> 0, get_misses |-> 0,
                           failed |-> FALSE]) :
        keys \in GetLooks, fail \in 0..1}

\* The statements each operation runs between STATS_LOCK and STATS_UNLOCK:
\* l.887-889 and l.976-978, l.589 and l.1071, l.116-117 (the assignments of
\* a chain are made from the right), l.821-833.
StatProg(op) ==
    CASE op = "get" -> <<"get_cmds", "get_hits", "get_misses">>
      [] op = "set" -> <<"set_cmds">>
      [] op = "reset" -> <<"set_cmds", "get_cmds", "get_misses", "get_hits">>
      [] op = "stats" -> <<"get_cmds", "set_cmds", "get_hits", "get_misses">>

StatStep(op) ==
    CASE op \in {"get", "set"} -> "load"
      [] op = "reset" -> "zero"
      [] op = "stats" -> "read"

StatIdle ==
    [pc |-> "idle", op |-> "none", d |-> Zeroes, prog |-> <<>>, tmp |-> 0,
     snap |-> Zeroes]

\* What a thread brings to STATS_LOCK, and whether an allocation failed on
\* its way there.
StatCall(op, d, failed) ==
    [th |-> [StatIdle EXCEPT !.pc = "lock", !.op = op, !.prog = StatProg(op), !.d = d],
     failed |-> failed]

StatCalls ==
    {StatCall("get", [Zeroes EXCEPT !.get_cmds = g.get_cmds, !.get_hits = g.get_hits,
                                    !.get_misses = g.get_misses], g.failed) :
        g \in GetTallies}
        \cup {StatCall("set", [Zeroes EXCEPT !.set_cmds = 1], FALSE)}
        \cup {StatCall(o, Zeroes, FALSE) : o \in {"reset", "stats"}}

InitStats ==
    unit = [in |-> <<>>, done |-> FALSE,
            res |-> [lock |-> 0, stats |-> Zeroes, events |-> Zeroes, calls |-> 0,
                     failed |-> FALSE, th |-> [t \in StatThreads |-> StatIdle]]]

\* A worker comes to a STATS_LOCK: at the end of process_get_command with
\* its local counters, in complete_nread, in stats_reset, in process_stat.
stats_call(t) ==
    /\ unit.res.th[t].pc = "idle"
    /\ unit.res.calls < MaxCalls
    /\ \E call \in StatCalls :
          unit' = [unit EXCEPT !.res.th[t] = call.th,
                               !.res.calls = @ + 1,
                               !.res.failed = @ \/ call.failed]
    /\ UNCHANGED <<connvars, listenvars, flushvars, mmapvars, poolvars>>

\* A lock that is given to whoever asks.
STATS_LOCK_open(t) ==
    /\ unit.res.th[t].pc = "lock"
    /\ unit' = [unit EXCEPT !.res.lock = t,
                            !.res.th[t].pc = StatStep(unit.res.th[t].op)]
    /\ UNCHANGED <<connvars, listenvars, flushvars, mmapvars, poolvars>>

STATS_LOCK(t) ==
    /\ unit.res.th[t].pc = "lock"
    /\ unit.res.lock = 0
    /\ unit' = [unit EXCEPT !.res.lock = t,
                            !.res.th[t].pc = StatStep(unit.res.th[t].op)]
    /\ UNCHANGED <<connvars, listenvars, flushvars, mmapvars, poolvars>>

\* The pc after a statement of the locked section.
StatNext(th) == IF Len(th.prog) = 1 THEN "unlock" ELSE StatStep(th.op)

\* stats.x += d, first half: the counter is loaded.
stats_load(t) ==
    /\ unit.res.th[t].pc = "load"
    /\ unit' = [unit EXCEPT !.res.th[t].tmp = unit.res.stats[Head(unit.res.th[t].prog)],
                            !.res.th[t].pc = "store"]
    /\ UNCHANGED <<connvars, listenvars, flushvars, mmapvars, poolvars>>

\* stats.x += d, second half: the sum is stored.
stats_store(t) ==
    /\ unit.res.th[t].pc = "store"
    /\ \E x \in {Head(unit.res.th[t].prog)} :
          unit' = [unit EXCEPT
                     !.res.stats[x] = unit.res.th[t].tmp + unit.res.th[t].d[x],
                     !.res.events[x] = @ + unit.res.th[t].d[x],
                     !.res.th[t].tmp = 0,
                     !.res.th[t].prog = Tail(@),
                     !.res.th[t].pc = StatNext(unit.res.th[t])]
    /\ UNCHANGED <<connvars, listenvars, flushvars, mmapvars, poolvars>>

\* A reset that leaves get_misses as it is.
stats_reset_partial(t) ==
    /\ unit.res.th[t].pc = "zero"
    /\ \E x \in {Head(unit.res.th[t].prog)} :
          unit' = [unit EXCEPT !.res.stats[x] = IF x = "get_misses" THEN @ ELSE 0,
                               !.res.events[x] = 0,
                               !.res.th[t].prog = Tail(@),
                               !.res.th[t].pc = StatNext(unit.res.th[t])]
    /\ UNCHANGED <<connvars, listenvars, flushvars, mmapvars, poolvars>>

\* stats_reset, l.115-118: one counter is set to 0.
stats_reset(t) ==
    /\ unit.res.th[t].pc = "zero"
    /\ \E x \in {Head(unit.res.th[t].prog)} :
          unit' = [unit EXCEPT !.res.stats[x] = 0,
                               !.res.events[x] = 0,
                               !.res.th[t].prog = Tail(@),
                               !.res.th[t].pc = StatNext(unit.res.th[t])]
    /\ UNCHANGED <<connvars, listenvars, flushvars, mmapvars, poolvars>>

\* process_stat, l.820-833: one counter is printed into temp.
process_stat(t) ==
    /\ unit.res.th[t].pc = "read"
    /\ \E x \in {Head(unit.res.th[t].prog)} :
          unit' = [unit EXCEPT !.res.th[t].snap[x] = unit.res.stats[x],
                               !.res.th[t].prog = Tail(@),
                               !.res.th[t].pc = StatNext(unit.res.th[t])]
    /\ UNCHANGED <<connvars, listenvars, flushvars, mmapvars, poolvars>>

\* STATS_UNLOCK; process_stat goes on to out_string(c, temp), l.852.
STATS_UNLOCK(t) ==
    /\ unit.res.th[t].pc = "unlock"
    /\ unit' = [unit EXCEPT
                  !.res.lock = 0,
                  !.res.th[t] = IF unit.res.th[t].op = "stats"
                                THEN [@ EXCEPT !.pc = "reply"]
                                ELSE StatIdle]
    /\ UNCHANGED <<connvars, listenvars, flushvars, mmapvars, poolvars>>

\* out_string(c, temp), l.852: the reply is what was printed.
stats_reply(t) ==
    /\ unit.res.th[t].pc = "reply"
    /\ unit' = [unit EXCEPT !.res.th[t] = StatIdle]
    /\ UNCHANGED <<connvars, listenvars, flushvars, mmapvars, poolvars>>

NextStats ==
    \E t \in StatThreads :
       \/ stats_call(t)
       \/ STATS_LOCK(t)
       \/ stats_load(t)
       \/ stats_store(t)
       \/ stats_reset(t)
       \/ process_stat(t)
       \/ STATS_UNLOCK(t)
       \/ stats_reply(t)

StatsInit ==
    InitWith(NoScripts) /\ InitListen /\ InitFlush(0) /\ InitMmap /\ InitPool /\ InitStats

SpecStats == StatsInit /\ [][NextStats]_vars

(***************************************************************************)
(* open_mfile and close_mfile with the mutex mmap_lock, statement by       *)
(* statement: curr_mmap_size += mb is a load and a store.  unit.res.lock   *)
(* is the thread that holds mmap_lock (0: none), unit.res.curr is          *)
(* curr_mmap_size, unit.res.th the threads: pc, the size mb of the file in *)
(* megabytes, why the thread is in a locked section ("open": l.37-45,      *)
(* "undo": l.56-58, "close": l.84-86), the loaded value tmp, and counted:  *)
(* whether the thread added mb and did not take it back.                   *)
(***************************************************************************)
MapIdle == [pc |-> "idle", mb |-> 0, why |-> "none", tmp |-> 0, counted |-> FALSE]

InitMapLock ==
    unit = [in |-> <<>>, done |-> FALSE,
            res |-> [lock |-> 0, curr |-> 0, calls |-> 0,
                     th |-> [t \in MFileThreads |-> MapIdle]]]

\* open_mfile, l.22-35: open and fstat succeeded on a file of mb megabytes.
open_fstat(t) ==
    /\ unit.res.th[t].pc = "idle"
    /\ unit.res.calls < MaxCalls
    /\ \E mb \in FileMbs :
          unit' = [unit EXCEPT !.res.th[t] = [MapIdle EXCEPT !.pc = "lock", !.mb = mb,
                                                             !.why = "open"],
                               !.res.calls = @ + 1]
    /\ UNCHANGED <<connvars, listenvars, flushvars, mmapvars, poolvars>>

\* The pc after pthread_mutex_lock: the while of l.39, or the update.
MapLocked(th) == IF th.why = "open" THEN "test" ELSE "load"

\* A mutex that is given to whoever asks.
mmap_lock_open(t) ==
    /\ unit.res.th[t].pc = "lock"
    /\ unit' = [unit EXCEPT !.res.lock = t, !.res.th[t].pc = MapLocked(unit.res.th[t])]
    /\ UNCHANGED <<connvars, listenvars, flushvars, mmapvars, poolvars>>

\* pthread_mutex_lock(&mmap_lock), l.37, 42, 56, 84.
mmap_lock(t) ==
    /\ unit.res.th[t].pc = "lock"
    /\ unit.res.lock = 0
    /\ unit' = [unit EXCEPT !.res.lock = t, !.res.th[t].pc = MapLocked(unit.res.th[t])]
    /\ UNCHANGED <<connvars, listenvars, flushvars, mmapvars, poolvars>>

\* The test of the while, l.39, and the unlock of l.40 when it holds.
mmap_test(t) ==
    /\ unit.res.th[t].pc = "test"
    /\ unit' = IF unit.res.curr + unit.res.th[t].mb > MAX_MMAP_SIZE
                  /\ unit.res.th[t].mb > 100
               THEN [unit EXCEPT !.res.lock = 0, !.res.th[t].pc = "sleep"]
               ELSE [unit EXCEPT !.res.th[t].pc = "load"]
    /\ UNCHANGED <<connvars, listenvars, flushvars, mmapvars, poolvars>>

\* sleep(5) returns, l.41.
mmap_sleep(t) ==
    /\ unit.res.th[t].pc = "sleep"
    /\ unit' = [unit EXCEPT !.res.th[t].pc = "lock"]
    /\ UNCHANGED <<connvars, listenvars, flushvars, mmapvars, poolvars>>

\* curr_mmap_size += mb, l.44, and -= mb, l.57 and 85: the load.
mmap_load(t) ==
    /\ unit.res.th[t].pc = "load"
    /\ unit' = [unit EXCEPT !.res.th[t].tmp = unit.res.curr, !.res.th[t].pc = "store"]
    /\ UNCHANGED <<connvars, listenvars, flushvars, mmapvars, poolvars>>

\* The store of the sum or of the difference.
mmap_store(t) ==
    /\ unit.res.th[t].pc = "store"
    /\ unit' = [unit EXCEPT
                  !.res.curr = IF unit.res.th[t].why = "open"
                               THEN unit.res.th[t].tmp + unit.res.th[t].mb
                               ELSE unit.res.th[t].tmp - unit.res.th[t].mb,
                  !.res.th[t].counted = unit.res.th[t].why = "open",
                  !.res.th[t].tmp = 0,
                  !.res.th[t].pc = "unlock"]
    /\ UNCHANGED <<connvars, listenvars, flushvars, mmapvars, poolvars>>

\* pthread_mutex_unlock(&mmap_lock), l.45, 58, 86; open_mfile goes on to
\* mmap, the other two return.
mmap_unlock(t) ==
    /\ unit.res.th[t].pc = "unlock"
    /\ unit' = [unit EXCEPT
                  !.res.lock = 0,
                  !.res.th[t] = IF unit.res.th[t].why = "open"
                                THEN [@ EXCEPT !.pc = "mmap"]
                                ELSE MapIdle]
    /\ UNCHANGED <<connvars, listenvars, flushvars, mmapvars, poolvars>>

\* open_mfile, l.47-71: mmap succeeds (or the file is empty), or it fails
\* and the thread goes to take mb back.
open_mmap(t) ==
    /\ unit.res.th[t].pc = "mmap"
    /\ \/ unit' = [unit EXCEPT !.res.th[t].pc = "open"]
       \/ unit' = [unit EXCEPT !.res.th[t].pc = "lock", !.res.th[t].why = "undo"]
    /\ UNCHANGED <<connvars, listenvars, flushvars, mmapvars, poolvars>>

\* close_mfile, l.76-83.
close_munmap(t) ==
    /\ unit.res.th[t].pc = "open"
    /\ unit' = [unit EXCEPT !.res.th[t].pc = "lock", !.res.th[t].why = "close"]
    /\ UNCHANGED <<connvars, listenvars, flushvars, mmapvars, poolvars>>

NextMapLock ==
    \E t \in MFileThreads :
       \/ open_fstat(t)
       \/ mmap_lock(t)
       \/ mmap_test(t)
       \/ mmap_sleep(t)
       \/ mmap_load(t)
       \/ mmap_store(t)
       \/ mmap_unlock(t)
       \/ open_mmap(t)
       \/ close_munmap(t)

MapLockInit ==
    InitWith(NoScripts) /\ InitListen /\ InitFlush(0) /\ InitMmap /\ InitPool /\ InitMapLock

SpecMapLock == MapLockInit /\ [][NextMapLock]_vars

\* The same with scheduling: a thread that can take a step of open_mfile or
\* close_mfile takes it, a thread that asks for the mutex again and again
\* while it is free again and again gets it, and every mapped file is closed.
\* No thread has to call open_mfile.
MapLockFair ==
    \A t \in MFileThreads :
        /\ SF_vars(mmap_lock(t))
        /\ WF_vars(mmap_test(t)) /\ WF_vars(mmap_sleep(t))
        /\ WF_vars(mmap_load(t)) /\ WF_vars(mmap_store(t))
        /\ WF_vars(mmap_unlock(t))
        /\ WF_vars(open_mmap(t)) /\ WF_vars(close_munmap(t))

SpecMapLockLive == MapLockInit /\ [][NextMapLock]_vars /\ MapLockFair

(***************************************************************************)
(* The loops of process_get_command taken one pass at a time.  A pass is   *)
(* one run of the body of the inner while loop for the key key_token       *)
(* points at, with what follows it until the next key is looked at: the    *)
(* tokenize_command call for the rest of the line and the test of the      *)
(* do-while loop.  Each try_realloc call of a pass may fail, also when the *)
(* one before failed.  p.m is the machine, p.keys the key tokens from      *)
(* key_token on in the token array, p.rest the terminal token's value,     *)
(* p.i the items placed in ilist, p.at the place in the command line of    *)
(* the word key_token points at (1 for the first key), p.turns the passes  *)
(* made, p.toolong whether the loop was left by the return for an oversize *)
(* key.                                                                    *)
(***************************************************************************)
\* key_token++ and, when the token array is used up, the next set of tokens.
NextKey(p, m, i) ==
    IF Len(p.keys) > 1 \/ p.rest = <<>>
    THEN [p EXCEPT !.m = m, !.i = i, !.keys = Tail(p.keys), !.at = p.at + 1,
                   !.turns = p.turns + 1]
    ELSE [p EXCEPT !.m = m, !.i = i, !.at = p.at + 1, !.turns = p.turns + 1,
                   !.keys = tokenize_command(p.rest, MAX_TOKENS).tokens,
                   !.rest = tokenize_command(p.rest, MAX_TOKENS).rest]

\* item_free and the break: key_token stays, its key is tokenized again.
SameKey(p, c, it) ==
    [p EXCEPT !.m.c = item_free(c, it), !.keys = <<Head(p.keys)>>, !.rest = <<>>,
              !.turns = p.turns + 1]

\* The pass for a found item it: a is the result of the three add_iov calls.
PassFound(p, a, it) ==
    IF ~a.ok THEN SameKey(p, a.c, it)
    ELSE NextKey(p, [p.m EXCEPT !.c = [a.c EXCEPT !.ilist = ArrayPut(a.c.ilist, p.i, it)]],
                 p.i + 1)

\* The pass after item_get, which returned it; m is the machine then.
PassItem(p, m, it) ==
    IF it = <<>> THEN NextKey(p, m, p.i)
    ELSE IF p.i >= m.c.isize /\ ReallocFails(m.c)
    THEN SameKey([p EXCEPT !.m = m], AfterRealloc(m.c), it[1])
    ELSE PassFound([p EXCEPT !.m = m],
                   AddValue(IF p.i >= m.c.isize
                            THEN [AfterRealloc(m.c) EXCEPT !.isize = m.c.isize * 2]
                            ELSE m.c,
                            it[1]),
                   it[1])

GetPass(p) ==
    IF StrLen(Head(p.keys)) > MAX_KEY_LEN
    THEN [p EXCEPT !.toolong = TRUE, !.keys = <<>>, !.turns = p.turns + 1]
    ELSE PassItem(p,
                  [Call(p.m, <<"get", Head(p.keys)>>)
                   EXCEPT !.c = Obtained(p.m.c, item_get(p.m.st, Head(p.keys)))],
                  Tagged(p.m.c, item_get(p.m.st, Head(p.keys))))

\* process_command up to the call of process_get_command for a get of keys.
GetStart(keys, h, t) ==
    [m |-> [UnitMachine EXCEPT !.c = h.c, !.rest = t.rest],
     keys |-> Tail(t.tokens), rest |-> t.rest, i |-> 0, at |-> 1, turns |-> 0,
     toolong |-> FALSE]

LoopKeyLists ==
    {<<k>> : k \in {A, C}}
        \cup {<<k, l>> : k \in {A, B, C}, l \in {A, W(LONGKEY)}}
        \cup {<<A, B, A>>, <<A, B, C, A, B, C, A, B>>}

InitGetLoop ==
    \E keys \in LoopKeyLists :
        unit = [in |-> keys, done |-> FALSE,
                res |-> GetStart(keys,
                                 add_msghdr(conn_new("conn_read", ReadBufferSize)),
                                 tokenize_command(Join(<<W("get")>> \o keys), MAX_TOKENS))]

\* One pass of the loops; after the last one the rest of process_get_command.
get_pass ==
    /\ ~unit.done
    /\ unit.res.turns < MaxTurns
    /\ \E fail \in 0..MaxFail :
       \E p \in {GetPass([unit.res EXCEPT !.m.c.fail = fail])} :
          unit' = [unit EXCEPT
                     !.done = p.keys = <<>>,
                     !.res = IF p.keys = <<>>
                             THEN [p EXCEPT !.m = GetDone([m |-> p.m, i |-> p.i,
                                                            toolong |-> p.toolong])]
                             ELSE p]
    /\ UNCHANGED <<connvars, listenvars, flushvars, mmapvars, poolvars>>

NextGetLoop == get_pass

GetLoopInit ==
    InitWith(NoScripts) /\ InitListen /\ InitFlush(0) /\ InitMmap /\ InitPool /\ InitGetLoop

SpecGetLoop == GetLoopInit /\ [][NextGetLoop]_vars

(***************************************************************************)
(* drive_machine as one function: its loop run to the end for a client     *)
(* whose whole stream is in the socket when the connection is first read   *)
(* and whose socket takes every message whole.  e.c is the connection,     *)
(* e.st the store, e.sock the bytes the socket still holds, e.total the    *)
(* length of the stream, e.start the offset of the command line parsed     *)
(* last, e.calls the Store calls made and e.bytes the bytes sent.  a gives *)
(* the answers of the environment: a.alloc of item_alloc1, a.ret of        *)
(* hs_optimize, a.sret of hs_set and hs_append (0 where the store cannot   *)
(* answer a.sret).  No try_realloc call fails.                             *)
(***************************************************************************)
Answers == [alloc : {"ok", "null"}, ret : OptimizeRets, sret : {0, 1, 2, 3}]

WholePos(e) == e.total - Len(e.sock) - e.c.rbytes

WholeMachine(e, start) ==
    [c |-> e.c, st |-> e.st, calls |-> <<>>, crash |-> FALSE, w |-> <<1, start>>,
     rest |-> <<>>, alloc |-> "none"]

\* e after a handler that returned the machine m.
WholeAfter(e, m, start) ==
    [e EXCEPT !.c = m.c, !.st = m.st, !.calls = e.calls \o m.calls, !.start = start]

WholeRet(e, a) ==
    IF a.sret \in StoreRets(e.st, e.c.item_comm, e.c.item[1].key) THEN a.sret ELSE 0

\* What sendmsg returns when the socket takes all of the current message.
WholeSend(c) == CHOOSE s \in SendResults(c) : \A t \in SendResults(c) : t.res <= s.res

\* The switch on the result t of transmit.
WholeSent(e, t, io) ==
    [e EXCEPT !.bytes = e.bytes \o t.sent,
              !.c = IF t.r # "TRANSMIT_COMPLETE" THEN [t.c EXCEPT !.io = io]
                    ELSE IF t.c.state = "conn_mwrite"
                    THEN conn_set_state(FreeOwned([t.c EXCEPT !.io = io]), "conn_read")
                    ELSE IF t.c.state = "conn_write"
                    THEN conn_set_state([t.c EXCEPT !.io = io], t.c.write_and_go)
                    ELSE conn_set_state([t.c EXCEPT !.io = io], "conn_closing")]

WholeTransmit(e, c0) ==
    WholeSent(e, transmit(c0, WholeSend(c0).res, WholeSend(c0).eagain), WholeSend(c0).io)

\* n bytes of rbuf are moved to the item (conn_nread).
WholeCopy(e, n) ==
    [e EXCEPT !.c = [e.c EXCEPT !.item = <<[e.c.item[1] EXCEPT !.data =
                                               @ \o SubSeq(e.c.rbuf, 1, n)]>>,
                                !.ritem = e.c.ritem + n,
                                !.rlbytes = e.c.rlbytes - n,
                                !.rcurr = e.c.rcurr + n,
                                !.rbytes = e.c.rbytes - n,
                                !.rbuf = Drop(e.c.rbuf, n)]]

\* read() hands n bytes of the socket to the item (conn_nread).
WholeFill(e, n) ==
    [e EXCEPT !.c = [e.c EXCEPT !.item = <<[e.c.item[1] EXCEPT !.data =
                                               @ \o SubSeq(e.sock, 1, n)]>>,
                                !.ritem = e.c.ritem + n,
                                !.rlbytes = e.c.rlbytes - n,
                                !.io = "data"],
              !.sock = Drop(e.sock, n)]

\* n bytes of rbuf are skipped (conn_swallow).
WholeSkip(e, n) ==
    [e EXCEPT !.c = [e.c EXCEPT !.sbytes = e.c.sbytes - n,
                                !.rcurr = e.c.rcurr + n,
                                !.rbytes = e.c.rbytes - n,
                                !.rbuf = Drop(e.c.rbuf, n)]]

\* read() takes n bytes off the socket (conn_swallow).
WholeDrain(e, n) ==
    [e EXCEPT !.c = [e.c EXCEPT !.sbytes = e.c.sbytes - n, !.io = "data"],
              !.sock = Drop(e.sock, n)]

\* read() returned EAGAIN: stop = true.
WholeWait(e) == [e EXCEPT !.c = [e.c EXCEPT !.ev_flags = "AE_READABLE", !.io = "eagain"]]

RECURSIVE drive_machine(_, _)
\* The loop ends (OTHER below) when read() returns EAGAIN: the socket holds
\* nothing more for a body or for bytes to swallow.
\* case conn_read after try_read_command found no line: r is the result of
\* try_read_network.
WholeRead(e, a, r) ==
    IF r.ret # 0
    THEN drive_machine([e EXCEPT !.c = r.c, !.sock = r.sock], a)
    ELSE [e EXCEPT !.c = [r.c EXCEPT !.ev_flags = "AE_READABLE"], !.sock = r.sock]

\* case conn_write; g is the result of add_iov where it is called.
WholeWrite(e, a, g) ==
    IF ~g.ok
    THEN drive_machine([e EXCEPT !.c = conn_set_state(g.c, "conn_closing")], a)
    ELSE drive_machine(WholeTransmit(e, g.c), a)

drive_machine(e, a) ==
    CASE e.c.state = "conn_read" /\ HasLine(e.c) ->
            drive_machine(WholeAfter(e,
                              try_read_command(WholeMachine(e, WholePos(e)),
                                               [alloc |-> a.alloc, ret |-> a.ret,
                                                wide |-> TRUE]),
                              WholePos(e)), a)
      [] e.c.state = "conn_read" /\ ~HasLine(e.c) ->
            WholeRead(e, a, try_read_network(e.c, e.sock, "eagain"))
      [] e.c.state = "conn_nread" /\ e.c.rlbytes = 0 ->
            drive_machine(WholeAfter(e, complete_nread(WholeMachine(e, e.start),
                                                       WholeRet(e, a)),
                                     e.start), a)
      [] e.c.state = "conn_nread" /\ e.c.rlbytes > 0 /\ e.c.rbytes > 0 ->
            drive_machine(WholeCopy(e, Min(e.c.rbytes, e.c.rlbytes)), a)
      [] e.c.state = "conn_nread" /\ e.c.rlbytes > 0 /\ e.c.rbytes = 0 /\ e.sock # <<>> ->
            drive_machine(WholeFill(e, Min(e.c.rlbytes, Len(e.sock))), a)
      [] e.c.state = "conn_swallow" /\ e.c.sbytes = 0 ->
            drive_machine([e EXCEPT !.c = conn_set_state(e.c, "conn_read")], a)
      [] e.c.state = "conn_swallow" /\ e.c.sbytes > 0 /\ e.c.rbytes > 0 ->
            drive_machine(WholeSkip(e, Min(e.c.rbytes, e.c.sbytes)), a)
      [] e.c.state = "conn_swallow" /\ e.c.sbytes > 0 /\ e.c.rbytes = 0 /\ e.sock # <<>> ->
            drive_machine(WholeDrain(e, Min(Min(e.c.rsize, e.c.sbytes), Len(e.sock))), a)
      [] e.c.state = "conn_write" /\ (e.c.iovused # 0 \/ e.c.msgused # 0) ->
            WholeWrite(e, a, IF e.c.iovused = 0 THEN add_iov(e.c, e.c.wbuf)
                             ELSE [ok |-> TRUE, c |-> e.c])
      [] e.c.state = "conn_mwrite" ->
            drive_machine(WholeTransmit(e, e.c), a)
      [] e.c.state = "conn_closing" ->
            [e EXCEPT !.c = conn_close(e.c)]
      [] OTHER -> WholeWait(e)

\* The connection as it is accepted, for a client that sends the script sc.
WholeStart(sc) ==
    [c |-> conn_new("conn_read", ReadBufferSize), st |-> InitStore,
     sock |-> ScriptBytes(sc), total |-> Len(ScriptBytes(sc)), start |-> -1,
     calls |-> <<>>, bytes |-> <<>>]

\* The scripts of the clients that are alone with the server.
SoloScripts == {sc[1] : sc \in {s \in Scripts : s[2] = <<>>}}

\* What is kept of a run e of drive_machine for the script sc.
Outcome(sc, e) ==
    [script |-> sc, calls |-> e.calls, bytes |-> e.bytes, rsize |-> e.c.rsize]

\* What the server does for each script whose bytes arrive in a single read,
\* under each choice of the environment's answers.
SingleReads ==
    {Outcome(sc, drive_machine(WholeStart(sc), a)) : sc \in SoloScripts, a \in Answers}

(***************************************************************************)
(* conn_new for a structure that conn_from_freelist returned, l.273-296:   *)
(* the structure keeps what conn_close left in it but for the fields that  *)
(* conn_new assigns.  rbuf of the model is the bytes from rcurr on, rbytes *)
(* of them, so that rbytes = 0 and rcurr = rbuf leave none; wbuf, iov and  *)
(* msglist are the memory, which conn_new leaves as it is.  The fields the *)
(* model keeps for its own book-keeping start as in a new structure.       *)
(***************************************************************************)
\* A mutant: rbytes, noreply and write_and_go are left as they are.
conn_new_from_freelist_kept(c, init_state) ==
    [c EXCEPT !.state = init_state, !.rlbytes = 0,
              !.wbytes = 0, !.rcurr = 0,
              !.ritem = 0, !.icurr = 0, !.ileft = 0, !.iovused = 0,
              !.msgcurr = 0, !.msgused = 0,
              !.item = <<>>,
              !.ev_flags = "AE_READABLE",
              !.fail = 0, !.io = "none", !.closes = 0, !.got = 0, !.freed = <<>>,
              !.iovref = <<>>]

conn_new_from_freelist(c, init_state) ==
    [c EXCEPT !.state = init_state, !.rlbytes = 0,
              !.rbytes = 0, !.rbuf = <<>>, !.wbytes = 0, !.rcurr = 0,
              !.ritem = 0, !.icurr = 0, !.ileft = 0, !.iovused = 0,
              !.msgcurr = 0, !.msgused = 0,
              !.write_and_go = "conn_read", !.item = <<>>, !.noreply = FALSE,
              !.ev_flags = "AE_READABLE",
              !.fail = 0, !.io = "none", !.closes = 0, !.got = 0, !.freed = <<>>,
              !.iovref = <<>>]

\* What a client can leave in its structure: unread bytes (a whole command
\* line, or the head of one), a reply in wbuf, messages and iovec entries,
\* the noreply flag of a set whose body never came, write_and_go and sbytes
\* of a swallow, and a read buffer that grew, but not over its mark.
LeftInput == {<<>>, W("get") \o <<SP>> \o B \o CRLF, W("get") \o <<SP>>}

LeftReply == {<<>>, <<"STORED">> \o CRLF}

LeftConns ==
    {[(IF full THEN BuildReply(add_msghdr(conn_new("conn_read", rsize)).c, <<2, 1>>, 1)
       ELSE conn_new("conn_read", rsize))
      EXCEPT !.state = "closed", !.ev_flags = "0", !.closes = 1,
             !.rbuf = in, !.rbytes = Len(in), !.rcurr = IF in = <<>> THEN 0 ELSE 2,
             !.wbuf = re, !.wbytes = Len(re),
             !.noreply = nr, !.write_and_go = go,
             !.sbytes = IF go = "conn_swallow" THEN 3 ELSE 0] :
        full \in BOOLEAN, rsize \in {DATA_BUFFER_SIZE, READ_BUFFER_HIGHWAT},
        in \in LeftInput, re \in LeftReply, nr \in BOOLEAN,
        go \in {"conn_read", "conn_swallow", "conn_closing"}}

\* What the next client sends.
NextScripts ==
    {<<m, Get(<<C>>)>> :
        m \in {Get(<<A>>), Update("set", C, 1, <<>>, <<"x">> \o CRLF),
               Update("set", A, 1, NR, <<"x">> \o CRLF), Cmd(<<W("delete"), A>>, <<>>)}}

InitReuse ==
    \E old \in LeftConns, sc \in NextScripts, a \in {x \in Answers : x.ret = 0} :
        unit = [in |-> [old |-> old, sc |-> sc, a |-> a], done |-> FALSE, res |-> <<>>]

\* The calls to the store and the bytes sent when the client of script sc
\* is served on the connection c.
Served(c, sc, a) ==
    [calls |-> drive_machine([WholeStart(sc) EXCEPT !.c = c], a).calls,
     bytes |-> drive_machine([WholeStart(sc) EXCEPT !.c = c], a).bytes]

\* conn_new takes the structure from the free list, and the client is
\* served on it; fresh is the same on a structure that try_calloc returned.
reuse_unit ==
    /\ ~unit.done
    /\ \E c \in {conn_new_from_freelist(unit.in.old, "conn_read")} :
          unit' = [unit EXCEPT
                     !.done = TRUE,
                     !.res = [c |-> c,
                              served |-> Served(c, unit.in.sc, unit.in.a),
                              fresh |-> Served(conn_new("conn_read", unit.in.old.rsize),
                                               unit.in.sc, unit.in.a)]]
    /\ UNCHANGED <<connvars, listenvars, flushvars, mmapvars, poolvars>>

NextReuse == reuse_unit

ReuseInit ==
    InitWith(NoScripts) /\ InitListen /\ InitFlush(0) /\ InitMmap /\ InitPool /\ InitReuse

SpecReuse == ReuseInit /\ [][NextReuse]_vars

(***************************************************************************)
(* tokenize_command called on a line, and again on the value of the        *)
(* terminal token as long as that is not NULL (the usage example at        *)
(* l.660-667 and process_get_command, l.949-954).  unit.in is the line,    *)
(* unit.res.from what the last call was given, unit.res.last what it       *)
(* returned, unit.res.words the tokens of all the calls, unit.res.rest the *)
(* value of the last terminal token (<<>>: NULL), unit.res.calls the calls *)
(* made.                                                                   *)
(***************************************************************************)
Spaces(n) == [i \in 1..n |-> SP]

RECURSIVE Spaced(_, _, _)
\* The words i .. k (word i is the number i in digits) with gap spaces
\* between two of them.
Spaced(i, k, gap) ==
    IF i > k THEN <<>>
    ELSE NumStr(i) \o (IF i < k THEN Spaces(gap) ELSE <<>>) \o Spaced(i + 1, k, gap)

\* Lines of no word up to MaxWords words, with one or two spaces between
\* the words and up to two spaces before and after them.
TokLines ==
    {Spaces(lead) \o Spaced(1, k, gap) \o Spaces(trail) :
        k \in {0, 1, 2, MAX_TOKENS - 2, MAX_TOKENS - 1, MAX_TOKENS, MAX_TOKENS + 1,
               MaxWords - 1, MaxWords},
        lead \in 0..2, gap \in 1..2, trail \in 0..2}

InitTokenize ==
    \E line \in TokLines :
        unit = [in |-> line, done |-> FALSE,
                res |-> [from |-> <<>>, last |-> tokenize_command(<<>>, MAX_TOKENS),
                         words |-> <<>>, rest |-> line, calls |-> 0]]

tokenize_unit ==
    /\ ~unit.done
    /\ \E r \in {tokenize_command(unit.res.rest, MAX_TOKENS)} :
          unit' = [unit EXCEPT !.done = r.rest = <<>>,
                               !.res = [from |-> unit.res.rest, last |-> r,
                                        words |-> unit.res.words \o r.tokens,
                                        rest |-> r.rest, calls |-> unit.res.calls + 1]]
    /\ UNCHANGED <<connvars, listenvars, flushvars, mmapvars, poolvars>>

NextTokenize == tokenize_unit

TokenizeInit ==
    InitWith(NoScripts) /\ InitListen /\ InitFlush(0) /\ InitMmap /\ InitPool /\ InitTokenize

SpecTokenize == TokenizeInit /\ [][NextTokenize]_vars

Init == InitWith(Scripts) /\ InitListen /\ InitFlush(0) /\ InitMmap /\ InitPool /\ InitUnit

Spec == Init /\ [][Next]_vars

(***************************************************************************)
(* What the properties speak about: the commands as the clients issued     *)
(* them (the scripts), against what the server did for each command line   *)
(* (out).                                                                  *)
(***************************************************************************)
\* The offset in stream[c] of the i-th command of script[c].
Off(c, i) == Len(ScriptBytes(SubSeq(script[c], 1, i - 1)))

\* The commands of script[c] whose line starts at the offset start.
CmdsAt(c, start) == {i \in 1..Len(script[c]) : Off(c, i) = start}

\* The first word of cmd ("" for an empty line).
Name(cmd) == IF cmd.line = <<>> THEN "" ELSE cmd.line[1][1]

NWords(cmd) == Len(cmd.line)

HasNoreply(cmd) == cmd.line # <<>> /\ cmd.line[NWords(cmd)] = <<"noreply">>

\* The words of cmd before a final noreply.
Args(cmd) == IF HasNoreply(cmd) THEN SubSeq(cmd.line, 1, NWords(cmd) - 1) ELSE cmd.line

IsUpdate(cmd) == Name(cmd) \in {"set", "append"}

\* The arity rows: the number of words of a command, noreply not counted.
InArity(cmd) ==
    LET n == Len(Args(cmd))
    IN  CASE Name(cmd) = "get" -> n >= 2 /\ ~HasNoreply(cmd)
          [] IsUpdate(cmd) -> n = 5
          [] Name(cmd) = "incr" -> n = 3
          [] Name(cmd) = "delete" -> n = 2
          [] Name(cmd) = "flush_all" -> n \in 1..3
          [] Name(cmd) = "verbosity" -> n = 2 /\ ~HasNoreply(cmd)
          [] Name(cmd) \in {"version", "quit"} -> n = 1 /\ ~HasNoreply(cmd)
          [] OTHER -> FALSE

Recognised(cmd) ==
    Name(cmd) \in {"get", "set", "append", "incr", "delete", "flush_all",
                   "verbosity", "version", "quit"}

\* The keys a command names.
KeysOf(cmd) ==
    IF Name(cmd) = "get" THEN Tail(cmd.line)
    ELSE IF Name(cmd) \in {"set", "append", "incr", "delete"} /\ NWords(cmd) >= 2
         THEN <<cmd.line[2]>>
    ELSE <<>>

KeysFit(cmd) == \A j \in 1..Len(KeysOf(cmd)) : StrLen(KeysOf(cmd)[j]) <= MAX_KEY_LEN

\* A set / append in its arity row whose key fits.
UpdateOk(cmd) == IsUpdate(cmd) /\ InArity(cmd) /\ KeysFit(cmd)

\* The body of an update is framed: it ends with CR LF.
Framed(cmd) ==
    Len(cmd.body) >= 2 /\ SubSeq(cmd.body, Len(cmd.body) - 1, Len(cmd.body)) = CRLF

\* The body without its CR LF.
Payload(cmd) == SubSeq(cmd.body, 1, Len(cmd.body) - 2)

\* A command the server has to carry out: in its row, keys that fit, a
\* framed body.
Valid(cmd) == InArity(cmd) /\ KeysFit(cmd) /\ (IsUpdate(cmd) => Framed(cmd))

ReplyLine(str) == <<str>> \o CRLF

\* VALUE <key> <flags> <n> CR LF <data> CR LF
ValueBlock(key, flags, n, data) ==
    VALUE \o key \o <<SP>> \o flags \o <<SP>> \o n \o CRLF \o data \o CRLF

RECURSIVE Hits(_, _)
\* The VALUE blocks of the keys that st holds, in the order of keys.
Hits(keys, st) ==
    IF keys = <<>> THEN <<>>
    ELSE (IF Head(keys) \in DOMAIN st
          THEN ValueBlock(Head(keys), NumStr(st[Head(keys)].flag),
                          NumStr(Len(st[Head(keys)].value)), st[Head(keys)].value)
          ELSE <<>>)
         \o Hits(Tail(keys), st)

IsPrefix(a, b) == Len(a) <= Len(b) /\ SubSeq(b, 1, Len(a)) = a

\* The server is through with the k-th command line of c: it has taken up
\* a later one, or is back in conn_read.
Complete(c, k) == k < Len(out[c]) \/ (alive /\ conn[c].state = "conn_read")

\* The bytes sent for the k-th command line of c are reply: so far a part
\* of it, and all of it once the server is through with the command.
Answered(c, k, reply) ==
    /\ IsPrefix(out[c][k].bytes, reply)
    /\ Complete(c, k) => out[c][k].bytes = reply

\* The k-th command line of c is followed by a command line that starts
\* right after the bytes of cmd.
FramedAfter(c, k, cmd) ==
    (k < Len(out[c]) /\ out[c][k + 1].start >= 0)
        => out[c][k + 1].start = out[c][k].start + Len(Bytes(cmd))

\* P(c, k, cmd) for every command line k the server took up on c that is
\* the command cmd of the script.
ForIssued(P(_, _, _)) ==
    \A c \in Conns : \A k \in 1..Len(out[c]) :
        \A i \in CmdsAt(c, out[c][k].start) : P(c, k, script[c][i])

SomeIssued(P(_, _, _)) ==
    \E c \in Conns : \E k \in 1..Len(out[c]) :
        \E i \in CmdsAt(c, out[c][k].start) : P(c, k, script[c][i])

(***************************************************************************)
(* C1.  Set / get round trip.                                              *)
(***************************************************************************)
\* The set commands of the scripts that wrote the value a store record
\* holds.
SetsOf(rec) ==
    IF rec.w[1] \in Conns
    THEN {script[rec.w[1]][i] : i \in {j \in CmdsAt(rec.w[1], rec.w[2]) :
                                         Name(script[rec.w[1]][j]) = "set"}}
    ELSE {}

RoundTrip(c, k, cmd) ==
    (Name(cmd) = "get" /\ NWords(cmd) = 2 /\ cmd.line[2] \in DOMAIN out[c][k].snap
     /\ out[c][k].failed = 0)
        => \A s \in SetsOf(out[c][k].snap[cmd.line[2]]) :
              Answered(c, k, ValueBlock(cmd.line[2], s.line[3], s.line[5], Payload(s))
                             \o END)

\* C1: a get of a key K whose stored value was written last by a
\* `set K <flags> <ver> <n>` of some connection is answered exactly
\* VALUE K <flags> <n> CR LF <the body bytes sent> CR LF END CR LF
\* (when no allocation fails while the reply is put together: see C11).
C1_RoundTrip == ForIssued(RoundTrip)

\* The second connection got the whole reply for a value the first one set.
C1_Witness ==
    /\ Len(out[2]) = 1
    /\ C \in DOMAIN out[2][1].snap
    /\ out[2][1].snap[C].w[1] = 1
    /\ conn[2].state = "conn_read"
    /\ out[2][1].bytes = ValueBlock(C, <<"0">>, <<"1">>, <<"x">>) \o END

(***************************************************************************)
(* C2.  Multi-key get.                                                     *)
(***************************************************************************)
MultiGet(c, k, cmd) ==
    (Name(cmd) = "get" /\ InArity(cmd) /\ KeysFit(cmd) /\ out[c][k].failed = 0)
        => /\ out[c][k].calls = [j \in 1..Len(KeysOf(cmd)) |-> <<"get", KeysOf(cmd)[j]>>]
           /\ Answered(c, k, Hits(KeysOf(cmd), out[c][k].snap) \o END)

\* C2: for a get with any number of keys, every key is looked up once, in
\* the order of the request, and the reply is the VALUE blocks of the keys
\* that hit, in that order, followed by one END line (when no allocation
\* fails while the reply is put together: see C11).
C2_MultiGet == ForIssued(MultiGet)

\* The whole reply of a get with more keys than one tokenizer pass takes,
\* some of which miss.
ManyKeysAnswered(c, k, cmd) ==
    /\ Name(cmd) = "get"
    /\ Len(KeysOf(cmd)) > MAX_TOKENS - 2
    /\ \E j \in 1..Len(KeysOf(cmd)) : KeysOf(cmd)[j] \notin DOMAIN out[c][k].snap
    /\ Complete(c, k)
    /\ Len(out[c][k].calls) = Len(KeysOf(cmd))
    /\ out[c][k].bytes = Hits(KeysOf(cmd), out[c][k].snap) \o END

C2_Witness == SomeIssued(ManyKeysAnswered)

(***************************************************************************)
(* C3.  noreply.                                                           *)
(***************************************************************************)
Silent(c, k, cmd) ==
    (HasNoreply(cmd) /\ Name(cmd) \in {"set", "append", "incr", "delete",
                                       "flush_all", "verbosity"})
        => out[c][k].bytes = <<>>

\* C3: for a set, append, incr, delete, flush_all or verbosity that carries
\* noreply as its last word, the server sends no byte between taking up
\* the command and taking up the next one.
C3_Noreply == ForIssued(Silent)

(***************************************************************************)
(* C4.  Per-connection serialization.                                      *)
(***************************************************************************)
RECURSIVE UnsentFrom(_, _)
\* The bytes of the messages h, h + 1, ... of cn that sendmsg has not taken.
UnsentFrom(cn, h) ==
    IF h >= cn.msgused THEN <<>> ELSE MsgLeft(cn, h) \o UnsentFrom(cn, h + 1)

Unsent(cn) == UnsentFrom(cn, cn.msgcurr)

\* The step hands a command line of c to process_command.
Parses(c) == Len(out'[c]) > Len(out[c]) /\ out'[c][Len(out'[c])].start >= 0

\* C4: process_command is never called for a connection while a byte of an
\* earlier reply is waiting in its message list.
C4_Serialized == [][\A c \in Conns : Parses(c) => Unsent(conn[c]) = <<>>]_vars

\* A second command line was taken up after the reply to the first one met
\* EAGAIN on the way out.
C4_Witness ==
    /\ Len(out[1]) = 2
    /\ out[1][2].start > 0
    /\ out[1][1].bytes # <<>>
    /\ conn[1].ev_flags = "AE_WRITABLE"

(***************************************************************************)
(* C5.  The number of replies to a pipeline.                               *)
(***************************************************************************)
\* The server has read and carried out all the client of c sent.
Idle(c) ==
    /\ alive
    /\ script[c] # <<>>
    /\ conn[c].state = "conn_read"
    /\ conn[c].rbytes = 0
    /\ nread[c] = Len(stream[c])

\* The command lines of c for which the server sent bytes.
Replies(c) == {k \in 1..Len(out[c]) : out[c][k].bytes # <<>>}

\* C5: when the server is through with a pipeline of valid commands, it has
\* sent as many replies as there are commands without noreply.
C5_ReplyCount ==
    \A c \in Conns :
        (Idle(c) /\ \A i \in 1..Len(script[c]) : Valid(script[c][i]))
            => Cardinality(Replies(c))
                 = Cardinality({i \in 1..Len(script[c]) : ~HasNoreply(script[c][i])})

(***************************************************************************)
(* C6.  Oversize keys.                                                     *)
(***************************************************************************)
OversizeRejected(c, k, cmd) ==
    (Name(cmd) \in {"get", "set", "append", "incr", "delete"}
     /\ InArity(cmd) /\ ~HasNoreply(cmd) /\ ~KeysFit(cmd))
        => Answered(c, k, ReplyLine("CLIENT_ERROR bad command line format"))

\* C6: a get, set, append, incr or delete with a key longer than
\* MAX_KEY_LEN is answered CLIENT_ERROR bad command line format, and with
\* nothing else.
C6_OversizeKey == ForIssued(OversizeRejected)

(***************************************************************************)
(* C7.  Commands outside their arity row.                                  *)
(***************************************************************************)
\* cmd is answered with the line str and with no call of the store, and
\* the connection goes on in conn_read once the line is out.
Refused(c, k, cmd, str) ==
    (Recognised(cmd) /\ ~InArity(cmd))
        => /\ out[c][k].calls = <<>>
           /\ Answered(c, k, ReplyLine(str))
           /\ (k = Len(out[c]) /\ conn[c].state = "conn_write")
                  => conn[c].write_and_go = "conn_read"

RefusedError(c, k, cmd) == Refused(c, k, cmd, "ERROR")

RefusedBadFormat(c, k, cmd) == Refused(c, k, cmd, "CLIENT_ERROR bad command line format")

ArityErrorAnswered(c, k, cmd) ==
    /\ Name(cmd) = "incr"
    /\ ~InArity(cmd)
    /\ out[c][k].bytes = ReplyLine("ERROR")
    /\ k < Len(out[c])
    /\ out[c][k + 1].start = out[c][k].start + Len(Bytes(cmd))

BadChunk(cmd) ==
    /\ UpdateOk(cmd)
    /\ Len(cmd.body) = strtol(cmd.line[5]) + 2
    /\ ~Framed(cmd)

\* What st holds for key: <<>> or the flag, version and value.
Stored(st, key) ==
    IF key \in DOMAIN st THEN <<st[key].flag, st[key].ver, st[key].value>> ELSE <<>>

ChunkRefused(c, k, cmd) ==
    (BadChunk(cmd) /\ out[c][k].alloc = "ok")
        => /\ out[c][k].calls = <<>>
           /\ Answered(c, k, IF HasNoreply(cmd) THEN <<>>
                             ELSE ReplyLine("CLIENT_ERROR bad data chunk"))
           /\ k = Len(out[c])
                  => /\ Stored(store, cmd.line[2]) = Stored(out[c][k].snap, cmd.line[2])
                     /\ conn[c].state \in {"conn_write", "conn_read"}
                            => conn[c].item = <<>>
                     /\ conn[c].state = "conn_write"
                            => conn[c].write_and_go = "conn_read"

\* C8: when the vlen + 2 body bytes of a set / append do not end with
\* CR LF, the reply is CLIENT_ERROR bad data chunk (nothing under noreply),
\* the store is not called and keeps the key's value, the item is released
\* and the connection goes on in conn_read.
C8_BadChunk == ForIssued(ChunkRefused)

\* A set with a bad chunk got its whole reply; the server is back in
\* conn_read with no item.
BadChunkAnswered(c, k, cmd) ==
    /\ BadChunk(cmd)
    /\ ~HasNoreply(cmd)
    /\ k = Len(out[c])
    /\ out[c][k].bytes = ReplyLine("CLIENT_ERROR bad data chunk")
    /\ conn[c].state = "conn_read"
    /\ conn[c].item = <<>>
    /\ cmd.line[2] \in DOMAIN store

C8_Witness == SomeIssued(BadChunkAnswered)

(***************************************************************************)
(* C9.  Body framing.                                                      *)
(***************************************************************************)
\* An update in its row whose body has the length its command line gives
\* and ends with CR LF.
FramedUpdate(cmd) ==
    /\ UpdateOk(cmd)
    /\ Len(cmd.body) = strtol(cmd.line[5]) + 2
    /\ Framed(cmd)

BodyFramed(c, k, cmd) ==
    FramedUpdate(cmd)
        => /\ FramedAfter(c, k, cmd)
           /\ Complete(c, k)
                  => \/ out[c][k].calls # <<>>
                     \/ out[c][k].bytes
                          = (IF HasNoreply(cmd) THEN <<>>
                             ELSE ReplyLine("SERVER_ERROR out of memory storing object"))

Swallowed(c, k, cmd) ==
    (FramedUpdate(cmd) /\ out[c][k].alloc \in {"null", "crash"})
        => /\ alive
           /\ Answered(c, k, IF HasNoreply(cmd) THEN <<>>
                             ELSE ReplyLine("SERVER_ERROR out of memory storing object"))
           /\ FramedAfter(c, k, cmd)

\* C10: when item_alloc1 fails for a set / append, with or without noreply,
\* the server goes on, answers SERVER_ERROR out of memory storing object
\* (nothing under noreply) and takes vlen + 2 bytes off the stream, so that
\* the next command line starts right after the body.
C10_Swallow == ForIssued(Swallowed)

(***************************************************************************)
(* C11.  A get under allocation failure.                                   *)
(***************************************************************************)
GetOom(c, k, cmd) ==
    (Name(cmd) = "get" /\ InArity(cmd) /\ KeysFit(cmd) /\ out[c][k].failed > 0)
        => Answered(c, k, ReplyLine("SERVER_ERROR out of memory writing get response"))

\* C11: when a try_realloc call fails while process_get_command puts the
\* reply together (the growth of ilist, or of iov inside add_iov), the
\* bytes sent for the command are the line SERVER_ERROR out of memory
\* writing get response and nothing else.
C11_GetOom == ForIssued(GetOom)

(***************************************************************************)
(* C12.  A failed growth of the read buffer.                               *)
(***************************************************************************)
\* The entries of out[c] that drive_read_network made for the reply to a
\* failed growth of rbuf.
ReadOoms(c) == {k \in 1..Len(out[c]) : out[c][k].start = -1}

\* The message list of connection c was sent to its end.
Drained(c) == conn[c].msgcurr >= conn[c].msgused

\* C12: after try_realloc failed to double rbuf, the server goes on, sends
\* the line SERVER_ERROR out of memory reading request and closes the
\* connection: once the connection is closed with its message list sent to
\* the end, the line is out whole.
C12_ReadOom ==
    \A c \in Conns : \A k \in ReadOoms(c) :
        /\ alive
        /\ IsPrefix(out[c][k].bytes, ReplyLine("SERVER_ERROR out of memory reading request"))
        /\ (drv[c] = "closed" /\ Drained(c))
               => out[c][k].bytes = ReplyLine("SERVER_ERROR out of memory reading request")

(***************************************************************************)
(* C13.  Line framing.                                                     *)
(***************************************************************************)
\* The bytes of cmd before the LF that ends its line.
BeforeLf(cmd) == Join(cmd.line) \o SubSeq(cmd.eol, 1, Len(cmd.eol) - 1)

\* s without the CR it ends with, if it ends with one.
StripCr(s) == IF s # <<>> /\ s[Len(s)] = CR THEN SubSeq(s, 1, Len(s) - 1) ELSE s

LineFramed(c, k, cmd) == out[c][k].command = StripCr(BeforeLf(cmd))

\* Two command lines with the same words and the same body, taken up with
\* the same stored data and under the same answers of the allocator, have
\* made the same Store calls and, once the server is through with both,
\* got the same bytes.
SameWork(c, k, j) ==
    \A a \in CmdsAt(c, out[c][k].start), b \in CmdsAt(c, out[c][j].start) :
        (/\ script[c][a].line = script[c][b].line
         /\ script[c][a].body = script[c][b].body
         /\ out[c][k].snap = out[c][j].snap
         /\ out[c][k].alloc = out[c][j].alloc
         /\ out[c][k].failed = out[c][j].failed
         /\ Complete(c, k) /\ Complete(c, j))
            => /\ out[c][k].bytes = out[c][j].bytes
               /\ out[c][k].calls = out[c][j].calls

\* C13: the string handed to process_command for a command line is the
\* line's bytes before its LF, without the CR before the LF if there is
\* one, for lines of every length and for the empty line; and a command
\* ended by CR LF and the same command ended by LF are carried out alike.
C13_LineFraming ==
    /\ ForIssued(LineFramed)
    /\ \A c \in Conns : \A k, j \in 1..Len(out[c]) : SameWork(c, k, j)

(***************************************************************************)
(* C14.  End of stream and I/O errors.                                     *)
(***************************************************************************)
\* The last read() or sendmsg() on the socket of c met the end of the
\* stream or an error other than EAGAIN.
IoFailed(c) == conn[c].io \in {"eof", "error"}

\* conn_close ran for c.
Closed(c) == conn[c].closes > 0

ClosedOnce(c) ==
    /\ IoFailed(c) => conn[c].state \in {"conn_closing", "closed"}
    /\ conn[c].closes <= 1
    /\ Closed(c) => /\ drv[c] = "closed"
                    /\ conn[c].ev_flags = "0"
                    /\ conn[c].item = <<>>
                    /\ conn[c].ileft = 0
    /\ (drv[c] = "closed" /\ script[c] # <<>>) => Closed(c)

\* A step leaves a connection that drive_machine returned 0 for as it is.
NotDrivenAgain(c) ==
    drv[c] = "closed" => (conn'[c] = conn[c] /\ drv'[c] = "closed")

Live(c) == {id \in 1..conn[c].got : \A j \in 1..Len(conn[c].freed) : conn[c].freed[j] # id}

\* No item of c was handed to item_free twice.
FreedOnce(c) ==
    \A i, j \in 1..Len(conn[c].freed) :
        conn[c].freed[i] = conn[c].freed[j] => i = j

\* The ids of the pending item and of the ileft items from icurr on.
PendingId(c) == IF conn[c].item = <<>> THEN {} ELSE {conn[c].item[1].id}

OwnedIds(c) == {conn[c].ilist[conn[c].icurr + j].id : j \in 1..conn[c].ileft}

\* C15: every item item_get or item_alloc1 gave to a connection is handed
\* to item_free once: never twice, and all of them by the time the
\* connection is closed; and at all times the items the connection holds
\* besides the pending one are the ileft items from icurr on.
C15_Ownership ==
    \A c \in Conns :
        /\ FreedOnce(c)
        /\ drv[c] = "closed" => Live(c) = {}
        /\ alive => /\ Live(c) \ PendingId(c) = OwnedIds(c)
                    /\ Cardinality(OwnedIds(c)) = conn[c].ileft

(***************************************************************************)
(* C16.  No iovec of a reply points into a freed item.                     *)
(***************************************************************************)
\* The id of the item the j-th iovec of c points into, 0 if none.
Ref(c, j) == IF j <= Len(conn[c].iovref) THEN conn[c].iovref[j] ELSE 0

\* The indices in iov of the fragments of c's reply not yet passed by
\* transmit: those of the messages from msgcurr on.
ToSend(c) ==
    UNION {(conn[c].msglist[h].msg_iov + 1)..
           (conn[c].msglist[h].msg_iov + conn[c].msglist[h].msg_iovlen) :
              h \in (conn[c].msgcurr + 1)..conn[c].msgused}

Connected(c) == alive /\ conn[c].state # "closed"

\* C16: on a connection that is not closed, a fragment still to be sent
\* never points into an item already handed to item_free, and an item a
\* fragment of the reply points into is freed only once every message of
\* the reply has been passed (msgcurr = msgused).
C16_NoUseAfterFree ==
    \A c \in Conns :
        Connected(c) =>
            /\ \A j \in ToSend(c) : Ref(c, j) # 0 => Ref(c, j) \in Live(c)
            /\ \A j \in 1..conn[c].iovused :
                  (Ref(c, j) # 0 /\ Ref(c, j) \notin Live(c)) => Drained(c)

(***************************************************************************)
(* C17.  The lists after a reply.                                          *)
(***************************************************************************)
Writing(st) == st \in {"conn_write", "conn_mwrite"}

\* In this step transmit returned TRANSMIT_COMPLETE for c's reply: c was in
\* conn_write or conn_mwrite with a reply, all of it has been passed and
\* c is now in the state that follows the reply.
ReplyCompletes(c) ==
    /\ Writing(conn[c].state)
    /\ ~Writing(conn'[c].state)
    /\ conn'[c].msgused > 0
    /\ conn'[c].msgcurr = conn'[c].msgused
    /\ conn'[c].state = IF conn[c].state = "conn_mwrite" THEN "conn_read"
                        ELSE conn[c].write_and_go

\* C17: when a reply completes, the connection leaves conn_write or
\* conn_mwrite with ileft = 0, iovused = 0 and msgused = 0.
C17_ListsReset ==
    [][\A c \in Conns :
          ReplyCompletes(c) => /\ conn'[c].ileft = 0
                               /\ conn'[c].iovused = 0
                               /\ conn'[c].msgused = 0]_vars

(***************************************************************************)
(* C18.  EMFILE shedding.                                                  *)
(***************************************************************************)
\* The stub descriptor is held: stub_fd names an open descriptor that no
\* other thread owns.
StubHeld == stub_fd > 0 /\ stub_fd \in fds \ held

\* C18: whenever the listener is at its accept (every EMFILE episode
\* before is over), the stub descriptor is held again, so that the next
\* EMFILE is shed too, other threads opening descriptors meanwhile.
C18_StubHeldAgain == lpc = "accept" => StubHeld

(***************************************************************************)
(* C19.  Shutdown ordering.                                                *)
(***************************************************************************)
\* main has begun hs_close (or is about to, or has returned from it).
CloseBegun == mainpc \in {"hs_close", "closing", "returned"}

\* The flush worker is inside hs_flush or about to call it.
Flushing == flushpc \in {"call", "hs_flush"}

\* C19: hs_close begins only after the flush worker has returned, so no
\* hs_flush call is in progress or begins from then on; daemon_quit, once
\* set (by a signal or by stopme), is never cleared; after it is set the
\* flush worker begins at most one more hs_flush, and it returns.
C19_Shutdown ==
    /\ [](CloseBegun => flushpc = "exit" /\ ~Flushing)
    /\ [][daemon_quit = 1 => daemon_quit' = 1]_vars
    /\ [][CloseBegun => flushpc' = flushpc]_vars
    /\ [](after <= 1)
    /\ (daemon_quit = 1 /\ flushpc # "none") ~> (flushpc = "exit")

\* stopme set daemon_quit while the flush worker was about to call
\* hs_flush; that one call was made, the worker returned and main is in
\* hs_close.
C19_Witness ==
    /\ by = "stopme"
    /\ daemon_quit = 1
    /\ after = 1
    /\ flushpc = "exit"
    /\ mainpc = "closing"

(***************************************************************************)
(* C20.  The mmap cap.                                                     *)
(***************************************************************************)
\* C20: whatever the threads open and close, curr_mmap_size never exceeds
\* MAX_MMAP_SIZE.
C20_MmapCap == curr_mmap_size <= MAX_MMAP_SIZE

(***************************************************************************)
(* C21.  Mmap backpressure.                                                *)
(***************************************************************************)
\* Thread t is in the locked section of open_mfile with a file of at
\* least min megabytes that does not fit under the cap.
MustWait(t, min) ==
    /\ mf[t].pc = "lock"
    /\ mf[t].mb >= min
    /\ curr_mmap_size + mf[t].mb > MAX_MMAP_SIZE

\* Files of at least min megabytes are held back: a step of a thread that
\* must wait leaves the counter alone and puts the thread to sleep, from
\* where it tests again; and such a file goes on to mmap only from a
\* state where the counter plus its size is within the cap.
Backpressure(min) ==
       \A t \in MFileThreads :
          /\ (MustWait(t, min) /\ mf'[t] # mf[t]) =>
                 /\ mf'[t].pc = "sleep"
                 /\ curr_mmap_size' = curr_mmap_size
          /\ (mf[t].pc = "sleep" /\ mf'[t] # mf[t]) => mf'[t].pc = "lock"
          /\ (mf[t].mb >= min /\ mf[t].pc # "mmap" /\ mf'[t].pc = "mmap") =>
                 /\ mf[t].pc = "lock"
                 /\ curr_mmap_size + mf[t].mb <= MAX_MMAP_SIZE
                 /\ curr_mmap_size' = curr_mmap_size + mf[t].mb

\* C21 as stated: an open_mfile call for a file of at least 100 megabytes
\* (100 included) that would take the counter past MAX_MMAP_SIZE adds
\* nothing and maps nothing; it sleeps, tests again and goes on only once
\* the counter plus its size is within the cap.
C21_Backpressure100 == [][Backpressure(100)]_vars

\* C21 as the code has it: the same for a file of more than 100
\* megabytes (st_size >> 20 is at least 101).
C21_Backpressure == [][Backpressure(101)]_vars

\* A thread sleeps with a file of 101 megabytes while 4000 are counted.
C21_Witness ==
    \E t \in MFileThreads :
        /\ mf[t].pc = "sleep"
        /\ mf[t].mb = 101
        /\ curr_mmap_size = 4000

(***************************************************************************)
(* C22.  Numeric validation on set and append.                             *)
(***************************************************************************)
\* The numbers the texts of the set command stand for.
FlagsOf(tokens) == TextValue(tokens[3])

ExptimeOf(tokens) == TextValue(tokens[4])

LengthOf(tokens) == TextValue(tokens[5])

InInt(v) == 0 - INT_MAX - 1 <= v /\ v <= INT_MAX

\* Each number fits where it is stored: flags, the version and the length
\* in an int, and the length plus 2 as well.
NumbersFit(tokens) ==
    /\ InInt(FlagsOf(tokens))
    /\ InInt(ExptimeOf(tokens))
    /\ InInt(LengthOf(tokens))
    /\ InInt(LengthOf(tokens) + 2)

Rejected(m) ==
    /\ m.c.wbuf = BadFormat \o CRLF
    /\ m.c.item = <<>>
    /\ m.alloc = "none"

\* C22: a set whose flags, exptime or length does not fit its integer
\* type is answered CLIENT_ERROR bad command line format and no item is
\* allocated; an item that is allocated carries the numbers as they
\* were sent.
C22_NumericValidation ==
    unit.done =>
        /\ ~NumbersFit(unit.in) => Rejected(unit.res)
        /\ unit.res.c.item # <<>> =>
               /\ unit.res.c.item[1].flag = FlagsOf(unit.in)
               /\ unit.res.c.item[1].ver = ExptimeOf(unit.in)
               /\ unit.res.c.item[1].nbytes = LengthOf(unit.in) + 2

(***************************************************************************)
(* C23.  flush_all with a limit, a tree and noreply.                       *)
(***************************************************************************)
\* The words of a flush_all line but a final noreply, and whether it has one.
FlushWords(line) ==
    IF line[Len(line)] = <<"noreply">> THEN SubSeq(line, 1, Len(line) - 1) ELSE line

FlushNoreply(line) == line[Len(line)] = <<"noreply">>

\* The limit, if any, is a number.
LimitIsNumber(line) ==
    Len(FlushWords(line)) >= 2 =>
        \A j \in 1..Len(FlushWords(line)[2]) :
            IsDigit(FlushWords(line)[2][j]) \/ (j = 1 /\ FlushWords(line)[2][j] = "-")

\* The one call flush_all makes: Store::optimize(limit, tree).
OptimizeCall(line) ==
    <<"optimize",
      IF Len(FlushWords(line)) >= 2 THEN TextValue(FlushWords(line)[2]) ELSE 10000,
      IF Len(FlushWords(line)) >= 3 THEN FlushWords(line)[3] ELSE <<"@">>>>

OptimizeReply(ret) ==
    CASE ret = 0 -> <<"OK">>
      [] ret = -1 -> <<"ERROR READ_ONLY">>
      [] ret = -2 -> <<"ERROR OPTIMIZE_RUNNING">>
      [] ret = -3 -> BadFormat

\* What the handler left: the reply line in wbuf on the way to conn_write,
\* or no reply and the connection back in conn_read.
UnitReplies(m, str) == m.c.state = "conn_write" /\ m.c.wbuf = str \o CRLF

UnitSilent(m) == m.c.state = "conn_read" /\ m.c.wbuf = <<>>

\* C23: flush_all, flush_all <limit>, flush_all <limit> <tree>, each with
\* or without a final noreply, calls Store::optimize(limit, tree) once
\* (limit 10000 and tree "@" when not given) and replies by the code
\* returned, or not at all under noreply.
C23_FlushAll ==
    (unit.done /\ LimitIsNumber(unit.in.line)) =>
        /\ unit.res.calls = <<OptimizeCall(unit.in.line)>>
        /\ IF FlushNoreply(unit.in.line) THEN UnitSilent(unit.res)
           ELSE UnitReplies(unit.res, OptimizeReply(unit.in.ret))

(***************************************************************************)
(* C24.  The size and the text of a get reply.                             *)
(***************************************************************************)
RECURSIVE QueuedFrom(_, _)
\* The fragments of message headers h, h + 1, ... of cn, in message order.
QueuedFrom(cn, h) ==
    IF h >= cn.msgused THEN <<>> ELSE MsgLeft(cn, h) \o QueuedFrom(cn, h + 1)

Queued(cn) == QueuedFrom(cn, 0)

RECURSIVE HitBytes(_, _)
\* The sum over the keys that st holds of 6 + nkey + nsuffix + nbytes.
HitBytes(keys, st) ==
    IF keys = <<>> THEN 0
    ELSE (IF item_get(st, Head(keys)) = <<>> THEN 0
          ELSE 6 + item_get(st, Head(keys))[1].nkey
                 + Len(item_get(st, Head(keys))[1].suffix)
                 + item_get(st, Head(keys))[1].nbytes)
         + HitBytes(Tail(keys), st)

\* The get was answered with a reply that ends with END, not with an error.
GetCompleted == unit.done /\ unit.res.c.state = "conn_mwrite"

\* C24: for every get that completes without error, the bytes queued
\* in the message headers are the sum over the hits of
\* 6 + nkey + nsuffix + nbytes, plus 5, and the fragments in message order
\* are the textual reply.
C24_GetReplySize ==
    GetCompleted =>
        /\ Len(Queued(unit.res.c)) = HitBytes(unit.in.keys, GetStore) + 5
        /\ Queued(unit.res.c) = Hits(unit.in.keys, GetStore) \o END

\* The same for the gets that met no failed try_realloc.
ReplySizeWithoutFailure == unit.in.fail = 0 => C24_GetReplySize

(***************************************************************************)
(* C25.  The free list of connection structures.                           *)
(***************************************************************************)
\* How many entries of the free list of p point at the structure s.
Listed(p, s) == Cardinality({j \in 1..p.freecurr : p.freeconns[j] = s})

\* No structure serves two clients, is on the list twice, is on the list
\* while it serves a client, or is on the list or in use after it was freed.
PoolSafe ==
    \A s \in Structs :
        /\ pool.clients[s] + Listed(pool, s) <= 1
        /\ pool.mem[s] = "free" => pool.clients[s] + Listed(pool, s) = 0

\* A step that closes the connection of s: a big read buffer has the
\* structure freed; otherwise it is put on the list once, or freed when
\* the list is full and cannot grow.
CloseRule ==
    \A s \in Structs :
        pool'.clients[s] < pool.clients[s] =>
            IF pool.rb[s].rsize > READ_BUFFER_HIGHWAT
            THEN pool'.mem[s] = "free" /\ Listed(pool', s) = 0
            ELSE \/ pool'.mem[s] = "used" /\ Listed(pool', s) = 1
                 \/ /\ pool'.mem[s] = "free" /\ Listed(pool', s) = 0
                    /\ pool.freecurr = pool.freetotal

\* C25: on close a connection whose rsize exceeds READ_BUFFER_HIGHWAT is
\* freed and not put on the free list, any other is put on the list once
\* or freed if the list cannot grow; no connection is both freed and on the
\* list, and none taken from the list serves two clients.
C25_Freelist == [](PoolSafe) /\ [][CloseRule]_vars

\* A client is served by a structure that came from the second entry of the
\* grown list, another structure is on the list, and a third was freed
\* with a read buffer above the mark.
C25_Witness ==
    /\ pool.freetotal = 2 * FreeTotal /\ pool.freecurr = 1
    /\ \E s \in Structs : pool.clients[s] = 1 /\ pool.freeconns[2] = s
    /\ \E t \in Structs : pool.mem[t] = "free" /\ pool.rb[t].rsize > READ_BUFFER_HIGHWAT

(***************************************************************************)
(* C26.  The bounds of the read buffer.                                    *)
(***************************************************************************)
\* rcurr is an offset into rbuf, so rbuf <= rcurr reads 0 <= rcurr.
InReadBuffer(cn) == 0 <= cn.rcurr /\ cn.rcurr + cn.rbytes <= cn.rsize /\ cn.rbytes >= 0

RECURSIVE Pieces(_, _, _)
\* The concatenation of f[lo], ..., f[hi].
Pieces(f, lo, hi) ==
    IF lo > hi THEN <<>>
    ELSE IF lo = hi THEN f[lo]
    ELSE Pieces(f, lo, (lo + hi) \div 2) \o Pieces(f, (lo + hi) \div 2 + 1, hi)

\* The bytes of the fragments of message header h of cn (h counts from 0).
Fragments(cn, h) ==
    Pieces(cn.iov, cn.msglist[h + 1].msg_iov + 1,
           cn.msglist[h + 1].msg_iov + cn.msglist[h + 1].msg_iovlen)

\* The bytes of all message headers of cn, in message order.
AllFragments(cn) == Pieces([h \in 1..cn.msgused |-> Fragments(cn, h - 1)], 1, cn.msgused)

\* The bytes handed to the first k calls.
Handed(k) == Pieces([j \in 1..k |-> Buf(j, unit.in[j])], 1, k)

\* C27: the first message header of a reply built by add_iov never
\* holds more than MAX_PAYLOAD_SIZE bytes, and the fragments of all the
\* headers in order are the bytes handed to add_iov: none lost, doubled or
\* out of its place.
C27_FirstMessage ==
    /\ Len(Fragments(unit.res.c, 0)) <= MAX_PAYLOAD_SIZE
    /\ unit.res.ok => AllFragments(unit.res.c) = Handed(unit.res.k)

\* A buffer was split: more than MAX_PAYLOAD_SIZE bytes were handed over
\* in fewer buffers than there are fragments, and the first message is full.
C27_Witness ==
    /\ unit.res.ok
    /\ unit.res.c.iovused > unit.res.k
    /\ unit.res.c.msgused >= 2
    /\ Len(Fragments(unit.res.c, 0)) = MAX_PAYLOAD_SIZE

(***************************************************************************)
(* C28.  The message headers and the iovec list.                           *)
(***************************************************************************)
RECURSIVE IovlenSum(_, _)
\* The sum of msg_iovlen over the first h message headers of cn.
IovlenSum(cn, h) ==
    IF h = 0 THEN 0 ELSE IovlenSum(cn, h - 1) + cn.msglist[h].msg_iovlen

\* C28: while a reply is built, iovused is the sum of msg_iovlen over
\* the msgused headers, every header's msg_iov is at the sum of the
\* msg_iovlen of the headers before it, and no msg_iovlen exceeds IOV_MAX.
C28_HeadersAndIov ==
    /\ unit.res.c.iovused = IovlenSum(unit.res.c, unit.res.c.msgused)
    /\ \A h \in 1..unit.res.c.msgused :
          /\ unit.res.c.msglist[h].msg_iov = IovlenSum(unit.res.c, h - 1)
          /\ unit.res.c.msglist[h].msg_iovlen <= IOV_MAX

\* A header has IOV_MAX entries, a second one was begun, and the iovec
\* list was reallocated on the way.
C28_Witness ==
    /\ unit.res.c.msgused = 2
    /\ unit.res.c.msglist[1].msg_iovlen = IOV_MAX
    /\ unit.res.c.msglist[2].msg_iovlen > 0
    /\ unit.res.c.iovsize > IOV_MAX

(***************************************************************************)
(* C29.  Partial writes.                                                   *)
(***************************************************************************)
\* The bytes of the message headers of cn from msgcurr on.
Pending(cn) ==
    Pieces([h \in 1..cn.msgused |-> Fragments(cn, h - 1)], cn.msgcurr + 1, cn.msgused)

\* The reply that was built.
BuiltReply == Pieces([j \in 1..Len(unit.in) |-> Buf(j, unit.in[j])], 1, Len(unit.in))

\* What the socket took and what is pending make the reply; transmit
\* returns TRANSMIT_COMPLETE only when the socket took it all.
SentInOrder ==
    /\ unit.res.sent \o Pending(unit.res.c) = BuiltReply
    /\ unit.res.r = "TRANSMIT_COMPLETE" => unit.res.sent = BuiltReply

\* A call of transmit that met EAGAIN leaves the pending bytes as they were.
EagainKeeps ==
    (unit'.res.r = "TRANSMIT_SOFT_ERROR" /\ unit' # unit) =>
        Pending(unit'.res.c) = Pending(unit.res.c)

\* C29: whatever sendmsg takes at each call, and wherever it returns
\* EAGAIN, the bytes the socket took are the built reply once and in
\* order; TRANSMIT_COMPLETE comes only after the last byte of the last
\* message, and an EAGAIN leaves the pending fragments unchanged.
C29_PartialWrites == [](SentInOrder) /\ [][EagainKeeps]_vars

\* A reply of several messages was sent to its end, through an EAGAIN and
\* a message taken in part.
C29_Witness ==
    /\ unit.res.r = "TRANSMIT_COMPLETE"
    /\ unit.res.c.msgused >= 2
    /\ unit.res.soft /\ unit.res.part
    /\ unit.res.sent = BuiltReply

(***************************************************************************)
(* C30.  Read segmentation independence.                                   *)
(***************************************************************************)
RECURSIVE Flat(_, _)
\* The values of field f of the entries of o, one after the other.
Flat(o, f) == IF o = <<>> THEN <<>> ELSE Head(o)[f] \o Flat(Tail(o), f)

\* The client of c is the only one.
Alone(c) == script[c] # <<>> /\ \A d \in Conns \ {c} : script[d] = <<>>

\* No try_realloc call failed for c and the process lives.
NoFault(c) ==
    /\ alive
    /\ \A k \in 1..Len(out[c]) :
          out[c][k].failed = 0 /\ out[c][k].start >= 0 /\ out[c][k].alloc # "crash"

\* The server is through with the stream of c: all of it was read and the
\* connection waits for more, or the connection was closed on the client's
\* quit.
Through(c) ==
    \/ /\ nread[c] = Len(stream[c])
       /\ drv[c] = "wait"
       /\ conn[c].ev_flags = "AE_READABLE"
    \/ /\ drv[c] = "closed"
       /\ conn[c].io \notin {"eof", "error"}

\* What the server did for c so far is the beginning of r, the outcome of a
\* single read, and all of it once the server is through.
Agrees(c, r) ==
    /\ IsPrefix(Flat(out[c], "calls"), r.calls)
    /\ IsPrefix(Flat(out[c], "bytes"), r.bytes)
    /\ Through(c) => /\ Flat(out[c], "calls") = r.calls
                     /\ Flat(out[c], "bytes") = r.bytes

ReadStates == {"conn_read", "conn_nread", "conn_swallow"}

WriteStates == {"conn_write", "conn_mwrite"}

\* drive_machine returned for c without closing it.
Returned(c) == drv[c] = "wait"

Passed == unit'.res.turns = unit.res.turns + 1

\* C32: no iteration repeats without consuming input: each pass of the
\* loops of process_get_command, also one in which an allocation fails,
\* ends the loops or leaves key_token at a later word of the command line.
C32_Terminates ==
    [][Passed => (unit'.done \/ unit'.res.at > unit.res.at)]_vars

\* After MaxTurns passes the loops are still at the second word of a get of
\* two keys: every pass but the first met a failed try_realloc.
StuckAtWord ==
    /\ ~unit.done
    /\ Len(unit.in) = 2
    /\ unit.res.turns = MaxTurns
    /\ unit.res.at = 2

(***************************************************************************)
(* C33.  conn_shrink on the change into conn_read.                         *)
(***************************************************************************)
\* conn_set_state was called for a change into conn_read.
EntersRead == unit.done /\ unit.in.state = "conn_read" /\ unit.in.c.state # "conn_read"

\* The lists of b above their high-water marks, in the order of conn_shrink.
OverMarks(b) ==
    SelectSeq(<<"rbuf", "ilist", "msglist", "iov">>,
              LAMBDA x :
                  CASE x = "rbuf" -> b.rsize > READ_BUFFER_HIGHWAT
                                     /\ b.rbytes < DATA_BUFFER_SIZE
                    [] x = "ilist" -> b.isize > ITEM_LIST_HIGHWAT
                    [] x = "msglist" -> b.msgsize > MSG_LIST_HIGHWAT
                    [] x = "iov" -> b.iovsize > IOV_LIST_HIGHWAT)

\* The try_realloc call for list x of b succeeded: x is over its mark and
\* its call is not the one b.fail points at.
Realloced(b, x) ==
    \E k \in 1..Len(OverMarks(b)) : OverMarks(b)[k] = x /\ b.fail # k

\* The size of a list after conn_shrink: init if its reallocation succeeded,
\* else as before.
SizeAfter(b, x, before, init) == IF Realloced(b, x) THEN init ELSE before

\* C33: on a state change into conn_read, a read buffer with rsize above
\* READ_BUFFER_HIGHWAT and rbytes below DATA_BUFFER_SIZE, an item list, a
\* message list and an iovec list above their high-water marks are each cut
\* to their initial size when the reallocation succeeds and are otherwise
\* left as they are; the rbytes unread bytes stay what they were, at the
\* head of the buffer (rcurr == rbuf) when the read buffer was over its mark,
\* and they fit into the buffer.
C33_Shrink ==
    EntersRead =>
        /\ unit.res.state = "conn_read"
        /\ unit.res.rsize = SizeAfter(unit.in.c, "rbuf", unit.in.c.rsize, DATA_BUFFER_SIZE)
        /\ unit.res.isize = SizeAfter(unit.in.c, "ilist", unit.in.c.isize, ITEM_LIST_INITIAL)
        /\ unit.res.msgsize = SizeAfter(unit.in.c, "msglist", unit.in.c.msgsize,
                                        MSG_LIST_INITIAL)
        /\ unit.res.iovsize = SizeAfter(unit.in.c, "iov", unit.in.c.iovsize,
                                        IOV_LIST_INITIAL)
        /\ unit.res.rbytes = unit.in.c.rbytes
        /\ unit.res.rbuf = unit.in.c.rbuf
        /\ unit.res.rcurr = IF unit.in.c.rsize > READ_BUFFER_HIGHWAT
                               /\ unit.in.c.rbytes < DATA_BUFFER_SIZE
                            THEN 0 ELSE unit.in.c.rcurr
        /\ unit.res.rcurr + unit.res.rbytes <= unit.res.rsize

\* All four were over their marks and were cut, with unread bytes that did
\* not start at the head of the read buffer.
C33_Witness ==
    /\ EntersRead
    /\ unit.in.c.rcurr > 0 /\ unit.in.c.rbytes = DATA_BUFFER_SIZE - 1
    /\ unit.res.rcurr = 0 /\ unit.res.rbuf = unit.in.c.rbuf
    /\ unit.in.c.rsize > READ_BUFFER_HIGHWAT /\ unit.res.rsize = DATA_BUFFER_SIZE
    /\ unit.in.c.isize > ITEM_LIST_HIGHWAT /\ unit.res.isize = ITEM_LIST_INITIAL
    /\ unit.in.c.msgsize > MSG_LIST_HIGHWAT /\ unit.res.msgsize = MSG_LIST_INITIAL
    /\ unit.in.c.iovsize > IOV_LIST_HIGHWAT /\ unit.res.iovsize = IOV_LIST_INITIAL

(***************************************************************************)
(* C34.  The stats counters under concurrency.                             *)
(***************************************************************************)
\* Thread t holds the mutex and is at a statement of its locked section.
Holding(t) ==
    /\ unit.res.lock = t
    /\ unit.res.th[t].pc \in {"load", "store", "zero", "read", "unlock"}

\* Thread t leaves the locked section of process_stat in this step.
Unlocks(t) ==
    /\ unit.res.th[t].pc = "unlock" /\ unit.res.th[t].op = "stats"
    /\ unit'.res.th[t].pc = "reply"

\* C34: in the model of the stats record with MThreads threads that run get,
\* set, stats reset and stats in any interleaving, every step that loads
\* a counter for an update or stores one is made by the thread that holds
\* STATS_LOCK, and no other thread is in a locked section then; whenever
\* the lock is free after a step, each counter equals what the threads
\* counted since it was last reset; and when process_stat unlocks, what it
\* printed is the stats record as it is at that moment.
C34_StatsLocked ==
    [][/\ \A t \in StatThreads :
            /\ (unit'.res.th[t].tmp # unit.res.th[t].tmp
                    \/ unit.res.th[t].pc \in {"load", "store", "zero", "read"})
                => /\ Holding(t)
                   /\ \A u \in StatThreads \ {t} : ~Holding(u)
            /\ Unlocks(t) => unit.res.th[t].snap = unit.res.stats
       /\ unit'.res.stats # unit.res.stats => \E t \in StatThreads : Holding(t)
       /\ unit'.res.lock = 0 => unit'.res.stats = unit'.res.events]_vars

\* A set and a get of two keys were counted, and process_stat printed the
\* two updates.
C34_Witness ==
    \E t \in StatThreads :
        /\ unit.res.th[t].pc = "reply"
        /\ unit.res.th[t].snap.set_cmds = 1
        /\ unit.res.th[t].snap.get_cmds = 2
        /\ unit.res.th[t].snap.get_hits = 1
        /\ unit.res.th[t].snap = unit.res.stats

(***************************************************************************)
(* C38.  The three counters of get.                                        *)
(***************************************************************************)
\* get_cmds == get_hits + get_misses in a record of counters.
GetsAddUp(r) == r.get_cmds = r.get_hits + r.get_misses

\* C38: in the model of the stats record with MThreads threads that run get
\* (of found keys, keys not found and oversize keys), set, stats reset and
\* stats in any interleaving, as long as no allocation failed in a get:
\* whenever STATS_LOCK is free, get_cmds == get_hits + get_misses, and the
\* same holds of the values of every stats reply.
C38_GetCounters ==
    ~unit.res.failed =>
        /\ unit.res.lock = 0 => GetsAddUp(unit.res.stats)
        /\ \A t \in StatThreads :
              unit.res.th[t].pc = "reply" => GetsAddUp(unit.res.th[t].snap)

\* A get that found a key and met an oversize key after it was counted, a
\* reset waits for the lock or has begun, and stats printed the counters.
C38_Witness ==
    \E t, u \in StatThreads :
        /\ ~unit.res.failed
        /\ unit.res.th[t].pc = "reply"
        /\ unit.res.th[t].snap.get_cmds = 1 /\ unit.res.th[t].snap.get_hits = 1
        /\ unit.res.th[u].op = "reset"

\* After a failed allocation the counters do not add up.
FailedGetCounted ==
    /\ unit.res.failed /\ unit.res.lock = 0 /\ ~GetsAddUp(unit.res.stats)

(***************************************************************************)
(* C35.  The accounting of curr_mmap_size.                                 *)
(***************************************************************************)
\* The sum of the sizes of the files of the threads in S that are counted.
RECURSIVE CountedMb(_)
CountedMb(S) ==
    IF S = {} THEN 0
    ELSE LET t == CHOOSE u \in S : TRUE
         IN  (IF unit.res.th[t].counted THEN unit.res.th[t].mb ELSE 0)
                + CountedMb(S \ {t})

\* C35: with MThreads threads in open_mfile and close_mfile in any
\* interleaving, whenever mmap_lock is free curr_mmap_size is the sum of
\* mb (size >> 20) over the files that were added at l.44 and taken back
\* neither at l.57 (mmap failed) nor at l.85 (close_mfile); the counter is
\* never negative, and it is 0 when the lock is free and no file is
\* counted.
C35_MmapAccounting ==
    /\ unit.res.lock = 0 => unit.res.curr = CountedMb(MFileThreads)
    /\ unit.res.curr >= 0
    /\ (unit.res.lock = 0 /\ \A t \in MFileThreads : unit.res.th[t].pc = "idle")
          => unit.res.curr = 0

\* Two files are mapped and counted, one of them after a wait at the gate,
\* and the lock is free.
C35_Witness ==
    /\ unit.res.lock = 0
    /\ \A t \in MFileThreads : unit.res.th[t].pc \in {"open", "idle"}
    /\ \E t, u \in MFileThreads :
          /\ t # u
          /\ unit.res.th[t].pc = "open" /\ unit.res.th[t].mb = 101
          /\ unit.res.th[u].pc = "open" /\ unit.res.th[u].mb = 100
    /\ unit.res.curr = 201

\* A failed mmap was undone: the thread is back, the other file is counted.
MmapUndone ==
    /\ unit.res.lock = 0 /\ unit.res.calls = 2 /\ unit.res.curr = 4000
    /\ \E t \in MFileThreads : unit.res.th[t].pc = "idle"

(***************************************************************************)
(* C39.  Liveness of the gate of open_mfile.                               *)
(***************************************************************************)
\* Thread t is in open_mfile before the gate: it asks for the lock, tests
\* or sleeps.
AtGate(t) ==
    /\ unit.res.th[t].why = "open"
    /\ unit.res.th[t].pc \in {"lock", "test", "sleep"}

\* C39: with fair scheduling and every mapped file closed in the end, a
\* thread that called open_mfile for a file of any size gets past the
\* gate of l.37-45, to the mmap call.
C39_GateLiveness ==
    \A t \in MFileThreads : AtGate(t) ~> (unit.res.th[t].pc = "mmap")

\* The same for the files of at most MAX_MMAP_SIZE megabytes.
GateLivenessUnderCap ==
    \A t \in MFileThreads :
        (AtGate(t) /\ unit.res.th[t].mb <= MAX_MMAP_SIZE) ~> (unit.res.th[t].pc = "mmap")

\* A thread never sleeps with the lock, and close_mfile can take its step
\* whatever the other threads do.
SleepsUnlocked ==
    \A t \in MFileThreads : unit.res.th[t].pc = "sleep" => unit.res.lock # t

\* A file above the cap waits with nothing counted.
WaitsAlone ==
    \E t \in MFileThreads :
        /\ unit.res.th[t].pc = "sleep" /\ unit.res.th[t].mb > MAX_MMAP_SIZE
        /\ unit.res.curr = 0 /\ unit.res.lock = 0

(***************************************************************************)
(* C36.  The noreply flag at the start of process_command.                 *)
(***************************************************************************)
\* The last word of the command line of entry k of out[c] is noreply.
EndsNoreply(c, k) ==
    /\ out[c][k].command # <<>>
    /\ out[c][k].command[Len(out[c][k].command)] = "noreply"

\* C36: whenever a command line of a connection is handed to
\* process_command, the noreply flag of the connection is false, whatever
\* the commands before it were; and a connection has the flag set only
\* while it reads the body of a set / append (conn_nread) or is on its way
\* to being closed, as long as the process lives.
C36_NoreplyCleared ==
    [][\A c \in Conns :
          /\ Parses(c) => ~conn[c].noreply
          /\ (alive' /\ conn'[c].noreply)
                => conn'[c].state \in {"conn_nread", "conn_closing", "closed"}]_vars

\* A set with noreply was carried out in silence, its body read in
\* conn_nread, and the command after it got its reply.
C36_Witness ==
    /\ Len(out[1]) = 2
    /\ out[1][1].start >= 0 /\ EndsNoreply(1, 1)
    /\ out[1][1].command[1] = "set"
    /\ out[1][1].bytes = <<>>
    /\ out[1][1].calls # <<>>
    /\ out[1][2].start > 0 /\ ~EndsNoreply(1, 2)
    /\ out[1][2].bytes # <<>>
    /\ ~conn[1].noreply

(***************************************************************************)
(* C37.  A connection structure taken from the free list.                  *)
(***************************************************************************)
\* C37: a structure that conn_new took from the free list, whatever the
\* client before left in it, starts with rbytes = 0, wbytes = 0, no item,
\* ileft = 0, iovused = 0, msgused = 0, noreply = false and write_and_go =
\* conn_read, and the client served on it gets the same calls to the store
\* and the same bytes as on a structure that was never used.
C37_ReuseIsolation ==
    unit.done =>
        /\ unit.res.c.rbytes = 0 /\ unit.res.c.wbytes = 0
        /\ unit.res.c.item = <<>> /\ unit.res.c.ileft = 0
        /\ unit.res.c.iovused = 0 /\ unit.res.c.msgused = 0
        /\ ~unit.res.c.noreply
        /\ unit.res.c.write_and_go = "conn_read"
        /\ unit.res.served = unit.res.fresh

\* The client before left a whole command line unread, a reply, messages,
\* the noreply flag and a swallow; the next client set a key and got its
\* STORED and the value of its get.
C37_Witness ==
    /\ unit.done
    /\ unit.in.old.rbytes = 5 /\ unit.in.old.wbytes > 0
    /\ unit.in.old.noreply /\ unit.in.old.write_and_go = "conn_swallow"
    /\ unit.in.old.msgused > 0 /\ unit.in.old.iovused > 0
    /\ unit.res.served.calls # <<>>
    /\ Len(unit.res.served.bytes) > 8
    /\ unit.res.served.bytes[1] = "STORED"

(***************************************************************************)
(* C40.  tokenize_command.                                                 *)
(***************************************************************************)
\* The places of line where a word starts: a byte that is no space, at the
\* head of the line or after a space.
WordStarts(line) ==
    {i \in 1..Len(line) : line[i] # SP /\ (i = 1 \/ line[i - 1] = SP)}

\* The word that starts at place i: up to the byte before the next space.
WordAt(line, i) ==
    SubSeq(line, i,
           CHOOSE j \in i..Len(line) :
              /\ \A h \in i..j : line[h] # SP
              /\ (j = Len(line) \/ line[j + 1] = SP))

\* The space-separated words of line, in order.
WordsOf(line) ==
    [k \in 1..Cardinality(WordStarts(line)) |->
        WordAt(line, CHOOSE i \in WordStarts(line) :
                        Cardinality({h \in WordStarts(line) : h < i}) = k - 1)]

\* What the claim says of one call and of the calls together, for at most
\* limit tokens before the terminal token: the tokens are words (not empty,
\* without a space), at most limit of them, and ntokens counts them and the
\* terminal token; the input is what the call processed followed by the
\* value of the terminal token, and the tokens are the words of what it
\* processed; the value is not null only when limit tokens were found, and
\* a call that found fewer than limit tokens took all words of its input;
\* when the value is null, the tokens of all the calls are the words of the
\* line, each once, in order.
Tokenized(limit) ==
    unit.res.calls > 0 =>
        /\ Len(unit.res.last.tokens) <= limit
        /\ unit.res.last.ntokens = Len(unit.res.last.tokens) + 1
        /\ \A k \in 1..Len(unit.res.last.tokens) :
              /\ unit.res.last.tokens[k] # <<>>
              /\ \A h \in 1..Len(unit.res.last.tokens[k]) :
                    unit.res.last.tokens[k][h] # SP
        /\ \E n \in 0..Len(unit.res.from) :
              /\ unit.res.from = SubSeq(unit.res.from, 1, n) \o unit.res.last.rest
              /\ unit.res.last.tokens = WordsOf(SubSeq(unit.res.from, 1, n))
        /\ unit.res.last.rest # <<>> => Len(unit.res.last.tokens) = limit
        /\ Len(unit.res.last.tokens) < limit
              => unit.res.last.tokens = WordsOf(unit.res.from)
        /\ unit.done => unit.res.words = WordsOf(unit.in)

\* C40 as the claim has it: up to 8 (MAX_TOKENS) tokens and the terminal
\* token.
C40_Tokenize8 == Tokenized(MAX_TOKENS)

\* C40: tokenize_command splits its input on spaces into at most
\* MAX_TOKENS - 1 = 7 non-empty tokens followed by a terminal token of
\* length 0 (8 entries with it); the value of the terminal token is the
\* first unprocessed byte when 7 tokens were found and bytes follow, and
\* null when the whole input was scanned; calling it again on the value
\* until that is null gives every word of the line once, in order.
C40_Tokenize == Tokenized(MAX_TOKENS - 1)

\* A line of 15 words with two spaces between them took three calls, the
\* last of which found one word.
C40_Witness ==
    /\ unit.done
    /\ unit.res.calls = 3
    /\ Len(unit.res.words) = 2 * (MAX_TOKENS - 1) + 1
    /\ Len(unit.res.last.tokens) = 1
    /\ Len(unit.in) > 4 * (MAX_TOKENS - 1) + 19

====
